---- MODULE Spec2Model ----
(***************************************************************************)
(* Verification model of the soul-marketplace survival economy:            *)
(*   - SpendingGuardrails      (spending_guardrails.py)                    *)
(*   - AgentCoordinationNetwork (agent_coordination.py)                    *)
(*   - OpenClawSoulSurvival     (soul_survival.py)                         *)
(*                                                                         *)
(* Units.  Python floats are modelled as integers in a fixed unit:         *)
(*   dollars  : 1 unit = $0.001      (guardrails)                          *)
(*   pool ETH : 1 unit = 0.05 ETH    (resource pools)                      *)
(*   soul ETH : 1 unit = 0.0005 ETH  (soul / agent balances, tiers)        *)
(*   time     : 1 unit = 24 hours                                          *)
(***************************************************************************)
EXTENDS Integers, Sequences, FiniteSets, TLC

(***************************************************************************)
(* Bounds of the model (not program constants).                            *)
(***************************************************************************)
MaxTx == 2
MaxTime == 2

(***************************************************************************)
(* SpendingGuardrails: class constants, spending_guardrails.py:29-37.      *)
(***************************************************************************)
MICRO_PAYMENT_MAX == 10
SMALL_PAYMENT_MAX == 100
MEDIUM_PAYMENT_MAX == 1000
LARGE_PAYMENT_MIN == 1000
DEFAULT_DAILY_LIMIT == 5000
DEFAULT_WEEKLY_LIMIT == 20000
\* 86400 seconds, spending_guardrails.py:101
DAY == 1
\* the week of the weekly counter, spending_guardrails.py:96; 7 days
WEEK == 7
\* history truncation, spending_guardrails.py:199
KEEP_TRANSACTIONS == 1000

\* Inputs of the guardrail operations.
NoRecipient == "none"
Amounts == {5, 50, 500, 2000}
\* amounts at and next to the thresholds of can_spend
ThresholdAmounts == {9, 10, 99, 100, 999, 1000, 1001}
\* a micro-payment, and amounts at and next to LARGE_PAYMENT_MIN
LargeAmounts == {9, 999, 1000, 1001}
Recipients == {"alice", "mallory"}
\* can_spend may be called without a recipient (default None).
OptRecipients == Recipients \cup {NoRecipient}
Purposes == {"gas"}
\* set_limits arguments; 0 stands for the default None (falsy, ignored).
DailyChoices == {0, 10}
WeeklyChoices == {0, 20000}
\* config['blocked_recipients'] as loaded from the config file: one blocked
\* recipient, so that both outcomes of the blacklist check occur.
LoadedBlocked == {"mallory"}

VARIABLES
    now,                \* time.time()
    daily_limit,        \* config['daily_limit']
    weekly_limit,       \* config['weekly_limit']
    blocked_recipients, \* config['blocked_recipients']
    emergency_stop,     \* self.emergency_stop / config['emergency_stop']
    transactions,       \* history['transactions']
    daily_total,        \* history['daily_total']
    weekly_total,       \* history['weekly_total']
    last_reset,         \* history['last_reset']
    result              \* the last guardrail call: its arguments and return

guardVars == <<daily_limit, weekly_limit, blocked_recipients, emergency_stop,
               transactions, daily_total, weekly_total, last_reset, result>>

\* AgentCoordinationNetwork
VARIABLES
    agents,             \* self.agents: agent_id -> AgentProfile
    pools,              \* self.pools: pool_id -> ResourcePool
    contributions,      \* number of contribute_to_pool calls made so far
    net_result          \* the last network call: its name and return

netVars == <<agents, pools, contributions, net_result>>

\* OpenClawSoulSurvival
VARIABLES
    soul,               \* self.soul: balance, earnings, capabilities
    tier_result         \* the last soul call: its name and return

soulVars == <<soul, tier_result>>

\* ReputationEngine
VARIABLES
    performance,        \* self.performance: agent_id -> PerformanceMetrics
    reputations,        \* self.reputations: agent_id -> ReputationScore
    rep_events,         \* number of metric-recording calls made so far
    rep_result          \* the last engine call: its name, agent and return

repVars == <<performance, reputations, rep_events, rep_result>>

\* OnChainSoulManager and the IPFS cache directory
VARIABLES
    backup_history,     \* self.state['backup_history']
    ipfs_cache,         \* the files of .ipfs_cache, oldest mtime first
    backup_result       \* the last backup call: its name, cid and return

backupVars == <<backup_history, ipfs_cache, backup_result>>

\* AgentCoordinationNetwork: the message log
VARIABLES
    messages,           \* self.messages
    aid_result          \* the last round: its return, and the registry and
                        \* the length of the log it started from

msgVars == <<messages, aid_result>>

\* Threads of one process that share one AgentCoordinationNetwork object
VARIABLES
    threads,            \* per thread: the call it is in, its position in the
                        \* call, and the values it holds in locals
    calls               \* number of calls the threads have begun

concVars == <<threads, calls>>

\* AgentCoordinationNetwork instances of several processes on one network_id
VARIABLES
    disk,               \* agents.json, messages.json and pools.json of the
                        \* network's data directory
    inst,               \* per instance: whether it has been constructed, and
                        \* its self.agents, self.messages and self.pools
    inst_ops,           \* number of calls made on the instances
    inst_result         \* the last call: its name, instance and subject

instVars == <<disk, inst, inst_ops, inst_result>>

\* AutoScalingManager
VARIABLES
    children,           \* self.children, in insertion order
    scale_result        \* the last call: its name and arguments, the funding
                        \* it used, the parent balance and the number of
                        \* children it started from, and its return

scaleVars == <<children, scale_result>>

\* AgentCoordinationNetwork: history of the message log
VARIABLES
    outbox              \* every message handed to send_message so far, in
                        \* the order of the calls (those of earlier runs, as
                        \* loaded from messages.json, included)

logVars == <<outbox>>

\* AgentCoordinationNetwork: the iteration order of self.agents
VARIABLES
    registered          \* the keys of self.agents in insertion order, the
                        \* order in which self.agents.values() yields them

orderVars == <<registered>>

\* EnhancedSoulSurvival
VARIABLES
    clock,              \* time.time() as EnhancedSoulSurvival reads it, in
                        \* units of 30 minutes
    survivor,           \* self.soul, self.state, and the account and the
                        \* simulation_state of self.onchain
    surv_result         \* the last call: its name, what it returned and the
                        \* number of backups it made

survVars == <<clock, survivor, surv_result>>

\* UltimateAgentSystem and ImmortalAgent: the loop of run_continuous
VARIABLES
    system              \* self.running, the position inside run_cycle, the
                        \* tier and balance the heartbeat returned, the number
                        \* of children auto_scale has still to spawn, and the
                        \* position at which a shutdown came

sysVars == <<system>>

lateVars == <<concVars, instVars, scaleVars, logVars, orderVars, survVars,
              sysVars>>
\* The state of the components that follow the soul in this module.
extVars == <<repVars, backupVars, msgVars, lateVars>>

NoResult == [op |-> "init", amount |-> 0, recipient |-> NoRecipient,
             allowed |-> FALSE, requires_approval |-> FALSE,
             reason |-> "", notification |-> FALSE, success |-> FALSE]

\* __init__, _load_config, _load_history
GuardInit ==
    /\ daily_limit = DEFAULT_DAILY_LIMIT
    /\ weekly_limit = DEFAULT_WEEKLY_LIMIT
    /\ blocked_recipients = LoadedBlocked
    /\ emergency_stop = FALSE
    /\ transactions = <<>>
    /\ daily_total = 0
    /\ weekly_total = 0
    /\ last_reset = now
    /\ result = NoResult

\* _reset_if_needed: the daily counter and last_reset after the call.
reset_due == now - last_reset > DAY
daily_after_reset == IF reset_due THEN 0 ELSE daily_total
last_reset_after_reset == IF reset_due THEN now ELSE last_reset

Decision(allowed, reason, approval, notification) ==
    [allowed |-> allowed, reason |-> reason,
     requires_approval |-> approval, notification |-> notification]

\* Variant of can_spend used to test the properties below: the micro-payment branch is tested first.
can_spend_micro_first(amount, recipient) ==
    LET daily_spent == daily_after_reset
    IN  IF amount < MICRO_PAYMENT_MAX
        THEN Decision(TRUE, "Micro-payment (auto-approved)", FALSE, FALSE)
        ELSE IF emergency_stop
        THEN Decision(FALSE, "EMERGENCY STOP ACTIVE", TRUE, FALSE)
        ELSE IF daily_spent + amount > daily_limit
        THEN Decision(FALSE, "Daily limit exceeded", TRUE, FALSE)
        ELSE IF recipient # NoRecipient /\ recipient \in blocked_recipients
        THEN Decision(FALSE, "Recipient is blacklisted", TRUE, FALSE)
        ELSE IF amount < SMALL_PAYMENT_MAX
        THEN Decision(TRUE, "Small payment", FALSE, FALSE)
        ELSE IF amount < MEDIUM_PAYMENT_MAX
        THEN Decision(TRUE, "Medium payment", FALSE, TRUE)
        ELSE Decision(FALSE, "Large payment requires approval", TRUE, FALSE)

\* Variant of can_spend used to test the properties below: the daily cap is tested with >= instead of >.
can_spend_cap_inclusive(amount, recipient) ==
    LET daily_spent == daily_after_reset
    IN  IF emergency_stop
        THEN Decision(FALSE, "EMERGENCY STOP ACTIVE", TRUE, FALSE)
        ELSE IF daily_spent + amount >= daily_limit
        THEN Decision(FALSE, "Daily limit exceeded", TRUE, FALSE)
        ELSE IF recipient # NoRecipient /\ recipient \in blocked_recipients
        THEN Decision(FALSE, "Recipient is blacklisted", TRUE, FALSE)
        ELSE IF amount < MICRO_PAYMENT_MAX
        THEN Decision(TRUE, "Micro-payment (auto-approved)", FALSE, FALSE)
        ELSE IF amount < SMALL_PAYMENT_MAX
        THEN Decision(TRUE, "Small payment", FALSE, FALSE)
        ELSE IF amount < MEDIUM_PAYMENT_MAX
        THEN Decision(TRUE, "Medium payment", FALSE, TRUE)
        ELSE Decision(FALSE, "Large payment requires approval", TRUE, FALSE)

\* Variant of can_spend used to test the properties below: the medium branch takes amount <= MEDIUM_PAYMENT_MAX.
can_spend_medium_inclusive(amount, recipient) ==
    LET daily_spent == daily_after_reset
    IN  IF emergency_stop
        THEN Decision(FALSE, "EMERGENCY STOP ACTIVE", TRUE, FALSE)
        ELSE IF daily_spent + amount > daily_limit
        THEN Decision(FALSE, "Daily limit exceeded", TRUE, FALSE)
        ELSE IF recipient # NoRecipient /\ recipient \in blocked_recipients
        THEN Decision(FALSE, "Recipient is blacklisted", TRUE, FALSE)
        ELSE IF amount < MICRO_PAYMENT_MAX
        THEN Decision(TRUE, "Micro-payment (auto-approved)", FALSE, FALSE)
        ELSE IF amount < SMALL_PAYMENT_MAX
        THEN Decision(TRUE, "Small payment", FALSE, FALSE)
        ELSE IF amount <= MEDIUM_PAYMENT_MAX
        THEN Decision(TRUE, "Medium payment", FALSE, TRUE)
        ELSE Decision(FALSE, "Large payment requires approval", TRUE, FALSE)

\* can_spend: the returned dict, computed on the counters after
\* _reset_if_needed.
can_spend(amount, recipient) ==
    LET daily_spent == daily_after_reset
    IN  IF emergency_stop
        THEN Decision(FALSE, "EMERGENCY STOP ACTIVE", TRUE, FALSE)
        ELSE IF daily_spent + amount > daily_limit
        THEN Decision(FALSE, "Daily limit exceeded", TRUE, FALSE)
        ELSE IF recipient # NoRecipient /\ recipient \in blocked_recipients
        THEN Decision(FALSE, "Recipient is blacklisted", TRUE, FALSE)
        ELSE IF amount < MICRO_PAYMENT_MAX
        THEN Decision(TRUE, "Micro-payment (auto-approved)", FALSE, FALSE)
        ELSE IF amount < SMALL_PAYMENT_MAX
        THEN Decision(TRUE, "Small payment", FALSE, FALSE)
        ELSE IF amount < MEDIUM_PAYMENT_MAX
        THEN Decision(TRUE, "Medium payment", FALSE, TRUE)
        ELSE Decision(FALSE, "Large payment requires approval", TRUE, FALSE)

\* Variant of request_approval used to test the properties below: the user
\* approves.
request_approval_granting == TRUE

\* request_approval: denies by default.
request_approval == FALSE

\* spend: TRUE iff the call reaches record_spending.
spend_records(amount, recipient, auto_approve_micro) ==
    LET check == can_spend(amount, recipient)
    IN  IF ~check.allowed /\ ~check.requires_approval
        THEN FALSE
        ELSE IF check.requires_approval
        THEN IF auto_approve_micro /\ amount < MICRO_PAYMENT_MAX
             THEN TRUE
             ELSE request_approval
        ELSE TRUE

\* spend: the 'reason' of the returned dict.
spend_reason(amount, recipient, auto_approve_micro) ==
    LET check == can_spend(amount, recipient)
    IN  IF spend_records(amount, recipient, auto_approve_micro)
        THEN check.reason
        ELSE IF ~check.allowed /\ ~check.requires_approval
        THEN check.reason
        ELSE "User denied approval"

\* record_spending: the transaction list after the append and truncation.
\* The fields of a transaction that no guardrail code reads back (timestamp,
\* date, recipient, tx_hash) are left out of the record.
appended_transactions(amount, recipient, purpose) ==
    LET tx == [amount |-> amount, purpose |-> purpose]
        all == Append(transactions, tx)
    IN  IF Len(all) > KEEP_TRANSACTIONS
        THEN SubSeq(all, Len(all) - KEEP_TRANSACTIONS + 1, Len(all))
        ELSE all

\* Variant of CanSpend used to test the properties below: an allowed amount
\* is added to the totals by the check itself.
CanSpend_counting(amount, recipient) ==
    LET check == can_spend(amount, recipient)
        added == IF check.allowed THEN amount ELSE 0
    IN  /\ daily_total' = daily_after_reset + added
        /\ weekly_total' = weekly_total + added
        /\ last_reset' = last_reset_after_reset
        /\ result' = [op |-> "can_spend", amount |-> amount,
                      recipient |-> recipient, allowed |-> check.allowed,
                      requires_approval |-> check.requires_approval,
                      reason |-> check.reason,
                      notification |-> check.notification, success |-> FALSE]
        /\ UNCHANGED <<now, daily_limit, weekly_limit, blocked_recipients,
                       emergency_stop, transactions>>
        /\ UNCHANGED <<netVars, soulVars, extVars>>

CanSpend(amount, recipient) ==
    LET check == can_spend(amount, recipient)
    IN  /\ daily_total' = daily_after_reset
        /\ last_reset' = last_reset_after_reset
        /\ result' = [op |-> "can_spend", amount |-> amount,
                      recipient |-> recipient, allowed |-> check.allowed,
                      requires_approval |-> check.requires_approval,
                      reason |-> check.reason,
                      notification |-> check.notification, success |-> FALSE]
        /\ UNCHANGED <<now, daily_limit, weekly_limit, blocked_recipients,
                       emergency_stop, transactions, weekly_total>>
        /\ UNCHANGED <<netVars, soulVars, extVars>>

RecordSpending(amount, recipient, purpose) ==
    /\ Len(transactions) < MaxTx
    /\ transactions' = appended_transactions(amount, recipient, purpose)
    /\ daily_total' = daily_total + amount
    /\ weekly_total' = weekly_total + amount
    /\ result' = [NoResult EXCEPT !.op = "record_spending", !.amount = amount,
                                  !.recipient = recipient]
    /\ UNCHANGED <<now, daily_limit, weekly_limit, blocked_recipients,
                   emergency_stop, last_reset>>
    /\ UNCHANGED <<netVars, soulVars, extVars>>

SpendCall(amount, recipient, purpose, auto_approve_micro) ==
    LET check == can_spend(amount, recipient)
        recorded == spend_records(amount, recipient, auto_approve_micro)
    IN  /\ recorded => Len(transactions) < MaxTx
        /\ last_reset' = last_reset_after_reset
        /\ IF recorded
           THEN /\ transactions' =
                       appended_transactions(amount, recipient, purpose)
                /\ daily_total' = daily_after_reset + amount
                /\ weekly_total' = weekly_total + amount
           ELSE /\ daily_total' = daily_after_reset
                /\ UNCHANGED <<transactions, weekly_total>>
        /\ result' = [op |-> "spend", amount |-> amount,
                      recipient |-> recipient, allowed |-> check.allowed,
                      requires_approval |-> check.requires_approval,
                      reason |-> spend_reason(amount, recipient,
                                              auto_approve_micro),
                      notification |-> check.notification,
                      success |-> recorded]
        /\ UNCHANGED <<now, daily_limit, weekly_limit, blocked_recipients,
                       emergency_stop>>
        /\ UNCHANGED <<netVars, soulVars, extVars>>

GetSpendingReport ==
    /\ daily_total' = daily_after_reset
    /\ last_reset' = last_reset_after_reset
    /\ result' = [NoResult EXCEPT !.op = "get_spending_report"]
    /\ UNCHANGED <<now, daily_limit, weekly_limit, blocked_recipients,
                   emergency_stop, transactions, weekly_total>>
    /\ UNCHANGED <<netVars, soulVars, extVars>>

SetLimits(daily, weekly) ==
    /\ daily_limit' = IF daily # 0 THEN daily ELSE daily_limit
    /\ weekly_limit' = IF weekly # 0 THEN weekly ELSE weekly_limit
    /\ result' = [NoResult EXCEPT !.op = "set_limits"]
    /\ UNCHANGED <<now, blocked_recipients, emergency_stop, transactions,
                   daily_total, weekly_total, last_reset>>
    /\ UNCHANGED <<netVars, soulVars, extVars>>

EmergencyStopToggle(active) ==
    /\ emergency_stop' = active
    /\ result' = [NoResult EXCEPT !.op = "emergency_stop_toggle"]
    /\ UNCHANGED <<now, daily_limit, weekly_limit, blocked_recipients,
                   transactions, daily_total, weekly_total, last_reset>>
    /\ UNCHANGED <<netVars, soulVars, extVars>>

\* The wall clock advances between calls.
Tick ==
    /\ now < MaxTime
    /\ now' = now + 1
    /\ UNCHANGED <<guardVars, netVars, soulVars, extVars>>

\* A week passes between calls.
TickWeek ==
    /\ now <= MaxTime
    /\ now' = now + WEEK
    /\ UNCHANGED <<guardVars, netVars, soulVars, extVars>>

(***************************************************************************)
(* OpenClawSoulSurvival: tier thresholds, soul_survival.py:32-35, in       *)
(* units of 0.0005 ETH.                                                    *)
(***************************************************************************)
CRITICAL == 2
LOW == 20
NORMAL == 200
THRIVING == 2000

Tiers == {"CRITICAL", "LOW", "NORMAL", "THRIVING"}

(***************************************************************************)
(* AgentCoordinationNetwork (agent_coordination.py).                       *)
(***************************************************************************)
\* the reputation gate of request_loan, agent_coordination.py:299
MIN_LOAN_REPUTATION == 20
\* the cap of a reputation, agent_coordination.py:282
MAX_REPUTATION == 100
\* the reputation gained by a contribution, agent_coordination.py:282
CONTRIBUTION_BOOST == 2

\* Bounds of the network model.
MaxLoans == 2
MaxContributions == 1

AgentIds == {"a1", "a2"}
PoolIds == {"p1", "p2"}
\* inputs of the pool operations, amounts in units of 0.05 ETH
PoolCreators == {"a2"}
InitialContributions == {2}
ContributionAmounts == {-1, 1}
LoanAmounts == {1, 2}
LoanPurposes == {"survival"}

\* An AgentProfile.  soul_cid, capabilities and last_seen are carried by the
\* dataclass but read by none of the operations modelled here.
Profile(id, tier, balance, reputation, active, offers, seeking) ==
    [agent_id |-> id, tier |-> tier, balance |-> balance,
     reputation |-> reputation, is_active |-> active,
     offers_help |-> offers, seeking_help |-> seeking]

\* Profiles registered in the pool scenarios: a1 just below the loan gate,
\* a2 just below the reputation cap.
PoolProfiles ==
    { Profile("a1", "CRITICAL", 1, 18, TRUE, FALSE, TRUE),
      Profile("a2", "THRIVING", 1000, 99, TRUE, TRUE, FALSE) }

\* Profiles and status updates of the registry scenarios (balances in units
\* of 0.0005 ETH; 200 is the 0.1 ETH of the demo's agent_beta).
RegistryProfiles ==
    { Profile(id, t, b, 50, TRUE, TRUE, k) :
        id \in AgentIds, t \in Tiers, b \in {1, 200}, k \in BOOLEAN }

\* keyword arguments of update_agent_status; "nickname" is no field of
\* AgentProfile
StatusUpdates ==
    { [balance |-> 1], [balance |-> 200], [tier |-> "CRITICAL"],
      [tier |-> "THRIVING", balance |-> 200],
      [seeking_help |-> TRUE], [is_active |-> FALSE], [nickname |-> "x"] }

NoNetResult == [op |-> "init", ok |-> FALSE, reason |-> "", found |-> {}]

\* __init__, _load_agents, _load_pools: no state files yet
NetInit ==
    /\ agents = <<>>
    /\ pools = <<>>
    /\ contributions = 0
    /\ net_result = NoNetResult

\* register_agent
RegisterAgent(profile) ==
    /\ agents' = (profile.agent_id :> profile) @@ agents
    /\ net_result' = [NoNetResult EXCEPT !.op = "register_agent", !.ok = TRUE]
    /\ UNCHANGED <<pools, contributions>>
    /\ UNCHANGED <<now, guardVars, soulVars, extVars>>

\* update_agent_status: setattr for every keyword that names a field
updated_profile(agent, kwargs) ==
    [f \in DOMAIN agent |->
        IF f \in DOMAIN kwargs THEN kwargs[f] ELSE agent[f]]

UpdateAgentStatus(agent_id, kwargs) ==
    /\ IF agent_id \notin DOMAIN agents
       THEN /\ net_result' = [NoNetResult EXCEPT !.op = "update_agent_status"]
            /\ UNCHANGED agents
       ELSE /\ agents' = [agents EXCEPT
                            ![agent_id] = updated_profile(@, kwargs)]
            /\ net_result' = [NoNetResult EXCEPT
                                !.op = "update_agent_status", !.ok = TRUE]
    /\ UNCHANGED <<pools, contributions>>
    /\ UNCHANGED <<now, guardVars, soulVars, extVars>>

\* find_agents_needing_help: the ids of the agents returned
find_agents_needing_help ==
    { id \in DOMAIN agents :
        /\ agents[id].tier = "CRITICAL"
        /\ agents[id].seeking_help
        /\ agents[id].is_active }

FindAgentsNeedingHelp ==
    /\ net_result' = [NoNetResult EXCEPT !.op = "find_agents_needing_help",
                         !.ok = TRUE, !.found = find_agents_needing_help]
    /\ UNCHANGED <<agents, pools, contributions>>
    /\ UNCHANGED <<now, guardVars, soulVars, extVars>>

\* create_resource_pool
CreateResourcePool(pool_id, creator_id, initial_contribution) ==
    LET pool == [name |-> "fund", total_balance |-> initial_contribution,
                 contributors |-> (creator_id :> initial_contribution),
                 loans |-> <<>>, created_at |-> now]
    IN  /\ pools' = (pool_id :> pool) @@ pools
        /\ net_result' = [NoNetResult EXCEPT
                            !.op = "create_resource_pool", !.ok = TRUE]
        /\ UNCHANGED <<agents, contributions>>
        /\ UNCHANGED <<now, guardVars, soulVars, extVars>>

\* Variant of pool_after_contribution used to test the properties below:
\* the balance rises, the contributors are left as they are.
pool_after_contribution_unbooked(pool, agent_id, amount) ==
    [pool EXCEPT !.total_balance = @ + amount]

\* contribute_to_pool: the pool after the contribution
pool_after_contribution(pool, agent_id, amount) ==
    LET before == IF agent_id \in DOMAIN pool.contributors
                  THEN pool.contributors[agent_id] ELSE 0
    IN  [pool EXCEPT
            !.total_balance = @ + amount,
            !.contributors = (agent_id :> (before + amount)) @@ @]

\* Variant of boosted used to test the properties below: the boost is
\* added without the cap.
boosted_uncapped(reputation, boost) == reputation + boost

\* min(100, reputation + boost)
boosted(reputation, boost) ==
    IF reputation + boost < MAX_REPUTATION
    THEN reputation + boost ELSE MAX_REPUTATION

ContributeToPool(pool_id, agent_id, amount) ==
    /\ contributions < MaxContributions
    /\ contributions' = contributions + 1
    /\ IF pool_id \notin DOMAIN pools
       THEN /\ net_result' = [NoNetResult EXCEPT !.op = "contribute_to_pool"]
            /\ UNCHANGED <<agents, pools>>
       ELSE /\ pools' = [pools EXCEPT ![pool_id] =
                            pool_after_contribution(@, agent_id, amount)]
            /\ agents' = IF agent_id \in DOMAIN agents
                         THEN [agents EXCEPT ![agent_id].reputation =
                                  boosted(@, CONTRIBUTION_BOOST)]
                         ELSE agents
            /\ net_result' = [NoNetResult EXCEPT
                                !.op = "contribute_to_pool", !.ok = TRUE]
    /\ UNCHANGED <<now, guardVars, soulVars, extVars>>

\* Variant of loan_decision used to test the properties below: the reputation gate is skipped.
loan_decision_no_gate(pool_id, agent_id, amount) ==
    IF pool_id \notin DOMAIN pools
    THEN "unknown pool"
    ELSE IF pools[pool_id].total_balance < amount
    THEN "insufficient funds"
    ELSE "granted"

\* Variant of loan_decision used to test the properties below: the solvency gate refuses amount = total_balance.
loan_decision_strict(pool_id, agent_id, amount) ==
    IF pool_id \notin DOMAIN pools
    THEN "unknown pool"
    ELSE IF agent_id \in DOMAIN agents
            /\ agents[agent_id].reputation < MIN_LOAN_REPUTATION
    THEN "reputation too low"
    ELSE IF pools[pool_id].total_balance <= amount
    THEN "insufficient funds"
    ELSE "granted"

\* Variant of loan_decision used to test the properties below: the solvency gate comes before the reputation gate.
loan_decision_funds_first(pool_id, agent_id, amount) ==
    IF pool_id \notin DOMAIN pools
    THEN "unknown pool"
    ELSE IF pools[pool_id].total_balance < amount
    THEN "insufficient funds"
    ELSE IF agent_id \in DOMAIN agents
            /\ agents[agent_id].reputation < MIN_LOAN_REPUTATION
    THEN "reputation too low"
    ELSE "granted"

\* request_loan: the gates, in the order of the code
loan_decision(pool_id, agent_id, amount) ==
    IF pool_id \notin DOMAIN pools
    THEN "unknown pool"
    ELSE IF agent_id \in DOMAIN agents
            /\ agents[agent_id].reputation < MIN_LOAN_REPUTATION
    THEN "reputation too low"
    ELSE IF pools[pool_id].total_balance < amount
    THEN "insufficient funds"
    ELSE "granted"

\* the loan dict of request_loan
Loan(agent_id, amount, purpose) ==
    [loan_id |-> <<now, agent_id>>, agent_id |-> agent_id, amount |-> amount,
     purpose |-> purpose, timestamp |-> now, repaid |-> FALSE]

\* Variant of pool_after_loan used to test the properties below: the loan is recorded, the balance is kept.
pool_after_loan_no_debit(pool, agent_id, amount, purpose) ==
    [pool EXCEPT !.loans = Append(@, Loan(agent_id, amount, purpose))]

\* request_loan: the pool after a granted loan
pool_after_loan(pool, agent_id, amount, purpose) ==
    [pool EXCEPT
        !.loans = Append(@, Loan(agent_id, amount, purpose)),
        !.total_balance = @ - amount]

RECURSIVE SumLoans(_)
SumLoans(ids) ==
    IF ids = {} THEN 0
    ELSE LET id == CHOOSE x \in ids : TRUE
         IN  Len(pools[id].loans) + SumLoans(ids \ {id})

TotalLoans == SumLoans(DOMAIN pools)

RequestLoan(pool_id, agent_id, amount, purpose) ==
    LET decision == loan_decision(pool_id, agent_id, amount)
    IN  /\ decision = "granted" => TotalLoans < MaxLoans
        /\ IF decision = "granted"
           THEN pools' = [pools EXCEPT ![pool_id] =
                             pool_after_loan(@, agent_id, amount, purpose)]
           ELSE UNCHANGED pools
        /\ net_result' = [NoNetResult EXCEPT !.op = "request_loan",
                             !.ok = (decision = "granted"),
                             !.reason = decision]
        /\ UNCHANGED <<agents, contributions>>
        /\ UNCHANGED <<now, guardVars, soulVars, extVars>>


(***************************************************************************)
(* OpenClawSoulSurvival (soul_survival.py): balance, tier and work.        *)
(***************************************************************************)
\* Bounds of the soul model.
MaxBalance == 201
MaxUses == 1

\* capabilities of the default soul, soul_survival.py:65-84
CapabilityNames == {"file_management", "code_generation", "github_operations"}
\* inputs of record_work; "unknown_skill" names no capability of the soul
WorkCapabilities == {"code_generation", "unknown_skill"}
WorkValues == {-1, 1, 19, 40, 180}

\* _load_soul: the default soul
SoulInit ==
    /\ soul = [current_balance |-> 0, total_lifetime_earnings |-> 0,
               capabilities |->
                   [c \in CapabilityNames |-> [earnings |-> 0, uses |-> 0]]]
    /\ tier_result = [op |-> "init", value |-> 0, tier |-> "none"]

\* get_balance
get_balance == soul.current_balance

\* Variant of get_tier used to test the properties below: the thresholds are exclusive lower bounds.
get_tier_exclusive ==
    IF get_balance <= CRITICAL THEN "CRITICAL"
    ELSE IF get_balance <= LOW THEN "LOW"
    ELSE IF get_balance <= NORMAL THEN "NORMAL"
    ELSE "THRIVING"

\* get_tier
get_tier ==
    IF get_balance < CRITICAL THEN "CRITICAL"
    ELSE IF get_balance < LOW THEN "LOW"
    ELSE IF get_balance < NORMAL THEN "NORMAL"
    ELSE "THRIVING"

GetTier ==
    /\ tier_result' = [op |-> "get_tier", value |-> 0, tier |-> get_tier]
    /\ UNCHANGED soul
    /\ UNCHANGED <<now, guardVars, netVars, extVars>>

\* record_work
RecordWork(capability, value) ==
    /\ soul.current_balance + value <= MaxBalance
    /\ soul.current_balance + value >= -MaxBalance
    /\ capability \in DOMAIN soul.capabilities =>
           soul.capabilities[capability].uses < MaxUses
    /\ soul' = [soul EXCEPT
           !.total_lifetime_earnings = @ + value,
           !.current_balance = @ + value,
           !.capabilities =
               IF capability \in DOMAIN @
               THEN [@ EXCEPT ![capability] =
                        [earnings |-> @.earnings + value, uses |-> @.uses + 1]]
               ELSE @]
    /\ tier_result' = [op |-> "record_work", value |-> value, tier |-> "none"]
    /\ UNCHANGED <<now, guardVars, netVars, extVars>>


(***************************************************************************)
(* ReputationEngine (reputation_engine.py).  Scores are in hundredths of a *)
(* point (round(x, 2)), earnings in units of 0.0005 ETH, uptime in hours.  *)
(* round() is modelled as rounding to the nearest hundredth, halves up.    *)
(***************************************************************************)
\* Bound of the reputation model.
MaxRepEvents == 2

\* reliability of an agent without tasks (50), reputation_engine.py:106
DEFAULT_RELIABILITY == 5000
\* the cap of every component (100), reputation_engine.py:109
SCORE_CAP == 10000
\* quality per unit of earnings: 0.1 ETH = 100 points, reputation_engine.py:109
QUALITY_PER_UNIT == 50
\* honesty (95), reputation_engine.py:112
HONESTY == 9500
\* helpfulness per clone (10) and per surviving child (5),
\* reputation_engine.py:115
CLONE_POINTS == 1000
CHILD_POINTS == 500
\* longevity per hour of uptime (1/10 point), reputation_engine.py:118
LONGEVITY_PER_HOUR == 10
\* the weights of the overall score in percent, reputation_engine.py:122-126
W_RELIABILITY == 30
W_QUALITY == 25
W_HONESTY == 20
W_HELPFULNESS == 15
W_LONGEVITY == 10
\* a percentage as a fraction: 0.3 is 30 / 100
PERCENT == 100
\* reliability is a rate times 100 points, in hundredths
RATE_SCALE == 10000

RepAgents == {"a1", "a2"}
\* values of tasks and trades, in units of 0.0005 ETH (-400 is -0.2 ETH)
TaskValues == {-400, 200}
TradeAmounts == {100}
\* keyword arguments of update_performance; "bogus" is no field of
\* PerformanceMetrics
PerformanceUpdates ==
    { [uptime_hours |-> 100], [tasks_completed |-> 3, tasks_failed |-> -2],
      [bogus |-> 1] }

\* PerformanceMetrics with every counter at 0, reputation_engine.py:97-102
DefaultMetrics ==
    [tasks_completed |-> 0, tasks_failed |-> 0, total_earnings |-> 0,
     total_spent |-> 0, avg_task_value |-> 0, uptime_hours |-> 0,
     backups_created |-> 0, souls_traded |-> 0, clones_created |-> 0,
     children_survived |-> 0]

NoRepResult == [op |-> "init", agent_id |-> "none", repeated |-> FALSE]

\* __init__, _load_reputations, _load_performance: no state files yet
RepInit ==
    /\ performance = <<>>
    /\ reputations = <<>>
    /\ rep_events = 0
    /\ rep_result = NoRepResult

\* min(a, b)
Min(a, b) == IF a < b THEN a ELSE b

\* the elements of a list
Range(seq) == { seq[i] : i \in DOMAIN seq }

\* n / d rounded to the nearest integer (d > 0)
RoundDiv(n, d) == (2 * n + d) \div (2 * d)

\* self.performance.get(agent_id, PerformanceMetrics(...))
metrics_of(perf, agent_id) ==
    IF agent_id \in DOMAIN perf THEN perf[agent_id] ELSE DefaultMetrics

\* calculate_reputation: the ReputationScore computed from the metrics
calculate_reputation(perf, agent_id) ==
    LET m == metrics_of(perf, agent_id)
        total_tasks == m.tasks_completed + m.tasks_failed
        \* reliability as a fraction rel_num / rel_den of hundredths
        rel_num == IF total_tasks > 0
                   THEN m.tasks_completed * RATE_SCALE
                   ELSE DEFAULT_RELIABILITY
        rel_den == IF total_tasks > 0 THEN total_tasks ELSE 1
        quality == Min(SCORE_CAP, m.total_earnings * QUALITY_PER_UNIT)
        helpfulness == Min(SCORE_CAP, m.clones_created * CLONE_POINTS
                                      + m.children_survived * CHILD_POINTS)
        longevity == Min(SCORE_CAP, m.uptime_hours * LONGEVITY_PER_HOUR)
        rest == W_QUALITY * quality + W_HONESTY * HONESTY
                + W_HELPFULNESS * helpfulness + W_LONGEVITY * longevity
    IN  [agent_id |-> agent_id,
         overall_score |-> RoundDiv(W_RELIABILITY * rel_num + rel_den * rest,
                                    PERCENT * rel_den),
         reliability |-> RoundDiv(rel_num, rel_den),
         quality |-> quality,
         honesty |-> HONESTY,
         helpfulness |-> helpfulness,
         longevity |-> longevity,
         total_transactions |-> m.souls_traded,
         positive_ratings |-> 0,
         negative_ratings |-> 0,
         last_updated |-> now]

\* the engine's two maps as one value
Engine(perf, reps) == [performance |-> perf, reputations |-> reps]

\* update_performance: current + value for every keyword that names a field
updated_metrics(m, kwargs) ==
    [f \in DOMAIN m |-> IF f \in DOMAIN kwargs THEN m[f] + kwargs[f] ELSE m[f]]

\* Variant of update_performance used to test the properties below: the reputation is not recalculated.
update_performance_stale(eng, agent_id, kwargs) ==
    LET perf == (agent_id :> updated_metrics(
                                 metrics_of(eng.performance, agent_id),
                                 kwargs)) @@ eng.performance
    IN  Engine(perf, eng.reputations)

\* update_performance: the engine after the call
update_performance(eng, agent_id, kwargs) ==
    LET perf == (agent_id :> updated_metrics(
                                 metrics_of(eng.performance, agent_id),
                                 kwargs)) @@ eng.performance
    IN  Engine(perf, (agent_id :> calculate_reputation(perf, agent_id))
                        @@ eng.reputations)

\* the engine as the variables hold it
engine == Engine(performance, reputations)

\* an engine call that records metrics: its effect on the variables
Recorded(op, agent_id, eng) ==
    /\ rep_events < MaxRepEvents
    /\ rep_events' = rep_events + 1
    /\ performance' = eng.performance
    /\ reputations' = eng.reputations
    /\ rep_result' = [op |-> op, agent_id |-> agent_id, repeated |-> FALSE]
    /\ UNCHANGED <<now, guardVars, netVars, soulVars, backupVars, msgVars, lateVars>>

\* TRUE iff the call follows a calculate_reputation for the same agent with
\* no call to the engine in between
repeats(agent_id) ==
    rep_result.op = "calculate_reputation" /\ rep_result.agent_id = agent_id

\* Variant of CalculateReputation used to test the properties below: every calculation counts as a completed task.
CalculateReputation_counting(agent_id) ==
    LET perf == (agent_id :> updated_metrics(
                                 metrics_of(performance, agent_id),
                                 [tasks_completed |-> 1])) @@ performance
    IN  /\ performance' = perf
        /\ reputations' = (agent_id :> calculate_reputation(perf, agent_id))
                             @@ reputations
        /\ rep_result' = [op |-> "calculate_reputation",
                          agent_id |-> agent_id,
                          repeated |-> repeats(agent_id)]
        /\ UNCHANGED rep_events
        /\ UNCHANGED <<now, guardVars, netVars, soulVars, backupVars, msgVars, lateVars>>

\* calculate_reputation: stores and returns the score
CalculateReputation(agent_id) ==
    /\ reputations' = (agent_id :> calculate_reputation(performance, agent_id))
                         @@ reputations
    /\ rep_result' = [op |-> "calculate_reputation", agent_id |-> agent_id,
                      repeated |-> repeats(agent_id)]
    /\ UNCHANGED <<performance, rep_events>>
    /\ UNCHANGED <<now, guardVars, netVars, soulVars, backupVars, msgVars, lateVars>>

UpdatePerformance(agent_id, kwargs) ==
    Recorded("update_performance", agent_id,
             update_performance(engine, agent_id, kwargs))

\* record_task_completion
RecordTaskCompletion(agent_id, value, success) ==
    Recorded("record_task_completion", agent_id,
             IF success
             THEN update_performance(engine, agent_id,
                      [tasks_completed |-> 1, total_earnings |-> value])
             ELSE update_performance(engine, agent_id, [tasks_failed |-> 1]))

\* record_trade: two update_performance calls
RecordTrade(agent_id, amount, is_seller) ==
    LET traded == update_performance(engine, agent_id, [souls_traded |-> 1])
    IN  Recorded("record_trade", agent_id,
                 IF is_seller
                 THEN update_performance(traded, agent_id,
                                         [total_earnings |-> amount])
                 ELSE update_performance(traded, agent_id,
                                         [total_spent |-> amount]))

\* record_clone
RecordClone(agent_id, child_survived) ==
    LET cloned == update_performance(engine, agent_id, [clones_created |-> 1])
    IN  Recorded("record_clone", agent_id,
                 IF child_survived
                 THEN update_performance(cloned, agent_id,
                                         [children_survived |-> 1])
                 ELSE cloned)

\* record_backup
RecordBackup(agent_id) ==
    Recorded("record_backup", agent_id,
             update_performance(engine, agent_id, [backups_created |-> 1]))


(***************************************************************************)
(* OnChainSoulManager / IPFSStorage in simulation mode (ipfs_storage.py)   *)
(* and the cache cleanup of SelfHealingSystem (self_healing.py).           *)
(* A soul is a dict: a sequence of <<key, value>> pairs in insertion       *)
(* order.  A JSON text is the sequence of pairs as written.                *)
(***************************************************************************)
\* Bounds of the backup model.
MaxBackups == 1
MaxCacheFiles == 52

\* _heal_disk keeps the newest 50 cache files, self_healing.py:358
KEEP_CACHE_FILES == 50

\* souls passed to backup_soul: SoulB holds the items of SoulA in another
\* insertion order, SoulC has earned
SoulA == << <<"name", "agent">>, <<"total_lifetime_earnings", 0>> >>
SoulB == << <<"total_lifetime_earnings", 0>>, <<"name", "agent">> >>
SoulC == << <<"name", "agent">>, <<"total_lifetime_earnings", 100>> >>
Souls == {SoulA, SoulB, SoulC}
\* the soul another agent uploads as the n-th file of the shared cache
OtherSoul(n) == << <<"name", "other">>, <<"total_lifetime_earnings", n>> >>
BackupTypes == {"manual"}
NoCid == [cid |-> <<>>]

NoBackupResult == [op |-> "init", cid |-> NoCid, ok |-> FALSE, data |-> <<>>]

\* OnChainSoulManager.__init__ / _load_state, IPFSStorage.__init__:
\* no state file, an empty cache directory
BackupInit ==
    /\ backup_history = <<>>
    /\ ipfs_cache = <<>>
    /\ backup_result = NoBackupResult

\* json.dumps(data, indent=2): the items in insertion order
dumps(data) == data

\* the keys of a dict
Keys(data) == { data[i][1] : i \in DOMAIN data }

\* the value stored under a key
ValueOf(data, key) ==
    LET i == CHOOSE j \in DOMAIN data : data[j][1] = key IN data[i][2]

\* the order of keys as strings, for the keys used here
KeyRank(key) == CASE key = "name" -> 1
                  [] key = "total_lifetime_earnings" -> 2

\* json.dumps(data, sort_keys=True): the items in key order
RECURSIVE dumps_sorted_from(_, _)
dumps_sorted_from(data, keys) ==
    IF keys = {} THEN <<>>
    ELSE LET k == CHOOSE x \in keys :
                      \A y \in keys : KeyRank(x) <= KeyRank(y)
         IN  <<(<<k, ValueOf(data, k)>>)>> \o
                 dumps_sorted_from(data, keys \ {k})

dumps_sorted(data) == dumps_sorted_from(data, Keys(data))

\* json.load: the dict a JSON text denotes, items in the order of the text
loads(text) == text

\* hashlib.sha256(...).hexdigest(), taken to be free of collisions
sha256(text) == [sha256 |-> text]

\* calculate_hash: the first 46 characters of the digest, taken to be free
\* of collisions as well
calculate_hash(content) == [cid |-> sha256(content).sha256]

\* the hash of a BackupRecord: the digest of the key-sorted dump
soul_hash(data) == sha256(dumps_sorted(data))

\* open(cache_file, 'w'): the file is created, or rewritten and so the
\* newest again
written(cache, name, content) ==
    Append(SelectSeq(cache, LAMBDA f : f.name # name),
           [name |-> name, content |-> content])

\* upload_to_ipfs in simulation mode: the cache after the upload
uploaded(cache, data) ==
    written(cache, calculate_hash(dumps(data)), dumps(data))

\* retrieve_from_ipfs: the cached dict, or <<>> (None) when the file is
\* gone; a simulated cid was never published, so no gateway serves it
retrieve_from_ipfs(cid) ==
    IF \E i \in DOMAIN ipfs_cache : ipfs_cache[i].name = cid
    THEN loads(ipfs_cache[CHOOSE i \in DOMAIN ipfs_cache :
                              ipfs_cache[i].name = cid].content)
    ELSE <<>>

\* backup_soul
BackupSoul(soul_data, backup_type) ==
    LET cid == calculate_hash(dumps(soul_data))
        backup_record == [cid |-> cid, hash |-> soul_hash(soul_data),
                          type |-> backup_type,
                          earnings |-> ValueOf(soul_data,
                                               "total_lifetime_earnings")]
    IN  /\ Len(backup_history) < MaxBackups
        /\ Len(ipfs_cache) < MaxCacheFiles
        /\ ipfs_cache' = uploaded(ipfs_cache, soul_data)
        /\ backup_history' = Append(backup_history, backup_record)
        /\ backup_result' = [op |-> "backup_soul", cid |-> cid, ok |-> TRUE,
                             data |-> <<>>]
        /\ UNCHANGED <<now, guardVars, netVars, soulVars, repVars, msgVars, lateVars>>

\* upload_to_ipfs by the manager of another soul: the cache directory is
\* shared by every IPFSStorage of the installation
UploadToIpfs ==
    /\ Len(ipfs_cache) < MaxCacheFiles
    /\ ipfs_cache' = uploaded(ipfs_cache, OtherSoul(Len(ipfs_cache)))
    /\ backup_result' = [NoBackupResult EXCEPT !.op = "upload_to_ipfs",
                                               !.ok = TRUE]
    /\ UNCHANGED backup_history
    /\ UNCHANGED <<now, guardVars, netVars, soulVars, repVars, msgVars, lateVars>>

\* _heal_disk: all but the newest KEEP_CACHE_FILES files are unlinked
HealDisk ==
    /\ ipfs_cache' =
           IF Len(ipfs_cache) > KEEP_CACHE_FILES
           THEN SubSeq(ipfs_cache, Len(ipfs_cache) - KEEP_CACHE_FILES + 1,
                       Len(ipfs_cache))
           ELSE ipfs_cache
    /\ backup_result' = [NoBackupResult EXCEPT !.op = "heal_disk", !.ok = TRUE]
    /\ UNCHANGED backup_history
    /\ UNCHANGED <<now, guardVars, netVars, soulVars, repVars, msgVars, lateVars>>

\* restore_from_backup; cid = NoCid is the default None (latest backup)
RestoreFromBackup(cid) ==
    /\ IF cid = NoCid /\ backup_history = <<>>
       THEN backup_result' = [NoBackupResult EXCEPT
                                 !.op = "restore_from_backup"]
       ELSE LET used == IF cid = NoCid
                        THEN backup_history[Len(backup_history)].cid
                        ELSE cid
                data == retrieve_from_ipfs(used)
            IN  backup_result' = [op |-> "restore_from_backup",
                                  cid |-> used, ok |-> data # <<>>,
                                  data |-> data]
    /\ UNCHANGED <<backup_history, ipfs_cache>>
    /\ UNCHANGED <<now, guardVars, netVars, soulVars, repVars, msgVars, lateVars>>


(***************************************************************************)
(* AgentCoordinationNetwork (agent_coordination.py): messages and the      *)
(* mutual aid round.  self.agents is a dict; the order in which it is      *)
(* iterated is its insertion order, which the round takes as `order`.      *)
(***************************************************************************)
\* Bound of the message model.
MaxMessages == 3

\* the message log keeps the last 1000 messages, agent_coordination.py:168
KEEP_MESSAGES == 1000
\* a helper needs a balance above 0.01 ETH, agent_coordination.py:362
MIN_HELPER_BALANCE == 20
\* the reputation gained by an offer, agent_coordination.py:244
OFFER_BOOST == 1

\* Profiles registered in the mutual aid scenarios: n1 and n2 are in need
\* (n1 may be inactive, n2 offers help from too low a tier); h1 and h2
\* offer help with different or equal reputations, at the cap, inactive or
\* with too small a balance.
AidProfiles ==
    { Profile("n1", "CRITICAL", 1, 30, TRUE, FALSE, TRUE),
      Profile("n1", "CRITICAL", 1, 30, FALSE, FALSE, TRUE),
      Profile("n2", "CRITICAL", 1, 80, TRUE, TRUE, TRUE),
      Profile("h1", "NORMAL", 200, 40, TRUE, TRUE, FALSE),
      Profile("h1", "NORMAL", 20, 90, TRUE, TRUE, FALSE),
      Profile("h2", "THRIVING", 2000, 70, FALSE, TRUE, FALSE),
      Profile("h2", "THRIVING", 2000, 40, TRUE, TRUE, FALSE),
      Profile("h2", "THRIVING", 2000, 100, TRUE, TRUE, FALSE) }

NoAidResult == [op |-> "init", matches |-> 0, before |-> <<>>, logged |-> 0]

\* _load_messages: no state file yet
MsgInit ==
    /\ messages = <<>>
    /\ aid_result = NoAidResult

\* the iteration orders of a dict with the given keys
Orders(keys) ==
    { o \in [1..Cardinality(keys) -> keys] :
        \A i, j \in DOMAIN o : o[i] = o[j] => i = j }

\* the members of a set in dict order
InOrder(order, members) == SelectSeq(order, LAMBDA a : a \in members)

\* Variant of sent used to test the properties below: past the cap the
\* newest message is dropped.
sent_dropping_newest(log, message) ==
    LET all == Append(log, message)
    IN  IF Len(all) > KEEP_MESSAGES
        THEN SubSeq(all, 1, KEEP_MESSAGES)
        ELSE all

\* send_message: the log after the append and truncation
sent(log, message) ==
    LET all == Append(log, message)
    IN  IF Len(all) > KEEP_MESSAGES
        THEN SubSeq(all, Len(all) - KEEP_MESSAGES + 1, Len(all))
        ELSE all

\* the network's agents and message log as one value
Network(ags, log, matches) ==
    [agents |-> ags, messages |-> log, matches |-> matches]

\* Variant of offer_help used to test the properties below: the offer
\* pays one unit of the helper's balance to the agent helped.
offer_help_paying(net, agent_id, target_agent) ==
    [net EXCEPT
        !.messages = sent(@, [sender |-> agent_id, recipient |-> target_agent,
                              msg_type |-> "offer"]),
        !.agents = IF agent_id \in DOMAIN @ /\ target_agent \in DOMAIN @
                   THEN [@ EXCEPT ![agent_id].reputation =
                            boosted(@, OFFER_BOOST),
                                  ![agent_id].balance = @ - 1,
                                  ![target_agent].balance = @ + 1]
                   ELSE @]

\* offer_help: the network after the offer
offer_help(net, agent_id, target_agent) ==
    [net EXCEPT
        !.messages = sent(@, [sender |-> agent_id, recipient |-> target_agent,
                              msg_type |-> "offer"]),
        !.agents = IF agent_id \in DOMAIN @
                   THEN [@ EXCEPT ![agent_id].reputation =
                            boosted(@, OFFER_BOOST)]
                   ELSE @]

\* Variant of best_helper used to test the properties below: the first available helper is taken.
best_helper_first(ags, available) == Head(available)

\* Variant of best_helper used to test the properties below: of the helpers
\* with the highest reputation the last is taken.
best_helper_last(ags, available) ==
    LET top == CHOOSE r \in { ags[h].reputation : h \in Range(available) } :
                   \A h \in Range(available) : ags[h].reputation <= r
        tied == SelectSeq(available, LAMBDA h : ags[h].reputation = top)
    IN  tied[Len(tied)]

\* max(available_helpers, key=reputation): the first of the helpers with
\* the highest reputation
best_helper(ags, available) ==
    LET top == CHOOSE r \in { ags[h].reputation : h \in Range(available) } :
                   \A h \in Range(available) : ags[h].reputation <= r
    IN  Head(SelectSeq(available, LAMBDA h : ags[h].reputation = top))

\* run_mutual_aid_round: the loop over the needy agents
RECURSIVE aid_round(_, _, _)
aid_round(needy, helpers, net) ==
    IF needy = <<>> THEN net
    ELSE LET available_helpers ==
                 SelectSeq(helpers, LAMBDA h :
                     net.agents[h].balance > MIN_HELPER_BALANCE)
         IN  IF available_helpers # <<>>
             THEN LET helper == best_helper(net.agents, available_helpers)
                      offered == offer_help(net, helper, Head(needy))
                  IN  aid_round(Tail(needy), helpers,
                                [offered EXCEPT !.matches = @ + 1])
             ELSE aid_round(Tail(needy), helpers, net)

RunMutualAidRound(order) ==
    LET needy == InOrder(order, find_agents_needing_help)
        helpers == InOrder(order,
                       { h \in DOMAIN agents :
                           /\ agents[h].offers_help
                           /\ agents[h].tier \in {"NORMAL", "THRIVING"} })
        after == aid_round(needy, helpers, Network(agents, messages, 0))
    IN  /\ Len(messages) + Len(needy) <= MaxMessages
        /\ agents' = after.agents
        /\ messages' = after.messages
        /\ aid_result' = [op |-> "run_mutual_aid_round",
                          matches |-> after.matches,
                          before |-> agents, logged |-> Len(messages)]
        /\ net_result' = [NoNetResult EXCEPT !.op = "run_mutual_aid_round",
                                             !.ok = TRUE]
        /\ UNCHANGED <<pools, contributions>>
        /\ UNCHANGED <<now, guardVars, soulVars, repVars, backupVars, lateVars>>

(***************************************************************************)
(* AgentCoordinationNetwork called from several threads of one process.    *)
(* The methods take no lock, so a thread can be preempted between any two  *)
(* reads or writes of the shared pool object.  `pool.total_balance += x`   *)
(* and `pool.contributors[a] = pool.contributors.get(a, 0) + x` are each a *)
(* read followed by a write.                                               *)
(***************************************************************************)

MaxCalls == 3

Threads == {"t1", "t2"}
ThreadContributions == {1}

Idle == [op |-> "idle", pc |-> "idle", pool_id |-> "none",
         agent_id |-> "none", amount |-> 0, purpose |-> "none", read |-> 0]

\* no call in progress
ConcInit ==
    /\ threads = [t \in Threads |-> Idle]
    /\ calls = 0

Call(op, pc, pool_id, agent_id, amount, purpose) ==
    [op |-> op, pc |-> pc, pool_id |-> pool_id, agent_id |-> agent_id,
     amount |-> amount, purpose |-> purpose, read |-> 0]

At(t, op, pc) == threads[t].op = op /\ threads[t].pc = pc

Goto(t, pc) == threads' = [threads EXCEPT ![t].pc = pc]

Return(t, op, ok) ==
    /\ threads' = [threads EXCEPT ![t] = Idle]
    /\ net_result' = [NoNetResult EXCEPT !.op = op, !.ok = ok]

\* request_loan, lines 291-301: the pool lookup and the reputation gate
LoanBegin(t, pool_id, agent_id, amount, purpose) ==
    /\ At(t, "idle", "idle")
    /\ calls < MaxCalls
    /\ calls' = calls + 1
    /\ IF \/ pool_id \notin DOMAIN pools
          \/ /\ agent_id \in DOMAIN agents
             /\ agents[agent_id].reputation < MIN_LOAN_REPUTATION
       THEN Return(t, "request_loan", FALSE)
       ELSE /\ threads' = [threads EXCEPT ![t] =
                   Call("request_loan", "check", pool_id, agent_id, amount,
                        purpose)]
            /\ UNCHANGED net_result
    /\ UNCHANGED <<agents, pools, contributions>>
    /\ UNCHANGED <<now, guardVars, soulVars, repVars, backupVars, msgVars,
                   instVars, scaleVars,
                       logVars, orderVars,
                       survVars,
                       sysVars>>
\* request_loan, line 304: if pool.total_balance < amount: return None
LoanCheck(t) ==
    /\ At(t, "request_loan", "check")
    /\ IF pools[threads[t].pool_id].total_balance < threads[t].amount
       THEN Return(t, "request_loan", FALSE)
       ELSE Goto(t, "append") /\ UNCHANGED net_result
    /\ UNCHANGED <<agents, pools, contributions, calls>>
    /\ UNCHANGED <<now, guardVars, soulVars, repVars, backupVars, msgVars,
                   instVars, scaleVars,
                       logVars, orderVars,
                       survVars,
                       sysVars>>
\* request_loan, line 318: pool.loans.append(loan)
LoanAppend(t) ==
    LET c == threads[t]
    IN  /\ At(t, "request_loan", "append")
        /\ pools' = [pools EXCEPT ![c.pool_id].loans =
                        Append(@, Loan(c.agent_id, c.amount, c.purpose))]
        /\ Goto(t, "debit_read")
        /\ UNCHANGED <<agents, contributions, net_result, calls>>
        /\ UNCHANGED <<now, guardVars, soulVars, repVars, backupVars,
                       msgVars, instVars, scaleVars,
                       logVars, orderVars,
                       survVars,
                       sysVars>>
\* request_loan, line 319: pool.total_balance -= amount, the read
LoanDebitRead(t) ==
    /\ At(t, "request_loan", "debit_read")
    /\ threads' = [threads EXCEPT
                      ![t].read = pools[threads[t].pool_id].total_balance,
                      ![t].pc = "debit_write"]
    /\ UNCHANGED <<netVars, calls>>
    /\ UNCHANGED <<now, guardVars, soulVars, repVars, backupVars, msgVars,
                   instVars, scaleVars,
                       logVars, orderVars,
                       survVars,
                       sysVars>>
\* request_loan, lines 319-327: the write of total_balance, and the return
LoanDebitWrite(t) ==
    LET c == threads[t]
    IN  /\ At(t, "request_loan", "debit_write")
        /\ pools' = [pools EXCEPT ![c.pool_id].total_balance =
                        c.read - c.amount]
        /\ Return(t, "request_loan", TRUE)
        /\ UNCHANGED <<agents, contributions, calls>>
        /\ UNCHANGED <<now, guardVars, soulVars, repVars, backupVars,
                       msgVars, instVars, scaleVars,
                       logVars, orderVars,
                       survVars,
                       sysVars>>
\* contribute_to_pool, lines 271-274: the pool lookup
ContributeBegin(t, pool_id, agent_id, amount) ==
    /\ At(t, "idle", "idle")
    /\ calls < MaxCalls
    /\ calls' = calls + 1
    /\ IF pool_id \notin DOMAIN pools
       THEN Return(t, "contribute_to_pool", FALSE)
       ELSE /\ threads' = [threads EXCEPT ![t] =
                   Call("contribute_to_pool", "credit_read", pool_id,
                        agent_id, amount, "none")]
            /\ UNCHANGED net_result
    /\ UNCHANGED <<agents, pools, contributions>>
    /\ UNCHANGED <<now, guardVars, soulVars, repVars, backupVars, msgVars,
                   instVars, scaleVars,
                       logVars, orderVars,
                       survVars,
                       sysVars>>
\* contribute_to_pool, line 275: pool.total_balance += amount, the read
ContributeCreditRead(t) ==
    /\ At(t, "contribute_to_pool", "credit_read")
    /\ threads' = [threads EXCEPT
                      ![t].read = pools[threads[t].pool_id].total_balance,
                      ![t].pc = "credit_write"]
    /\ UNCHANGED <<netVars, calls>>
    /\ UNCHANGED <<now, guardVars, soulVars, repVars, backupVars, msgVars,
                   instVars, scaleVars,
                       logVars, orderVars,
                       survVars,
                       sysVars>>
\* contribute_to_pool, line 275: the write of total_balance
ContributeCreditWrite(t) ==
    LET c == threads[t]
    IN  /\ At(t, "contribute_to_pool", "credit_write")
        /\ pools' = [pools EXCEPT ![c.pool_id].total_balance =
                        c.read + c.amount]
        /\ Goto(t, "ledger_read")
        /\ UNCHANGED <<agents, contributions, net_result, calls>>
        /\ UNCHANGED <<now, guardVars, soulVars, repVars, backupVars,
                       msgVars, instVars, scaleVars,
                       logVars, orderVars,
                       survVars,
                       sysVars>>
\* contribute_to_pool, line 276: pool.contributors.get(agent_id, 0)
ContributeLedgerRead(t) ==
    LET c == threads[t]
        ledger == pools[c.pool_id].contributors
    IN  /\ At(t, "contribute_to_pool", "ledger_read")
        /\ threads' = [threads EXCEPT
                          ![t].read = IF c.agent_id \in DOMAIN ledger
                                      THEN ledger[c.agent_id] ELSE 0,
                          ![t].pc = "ledger_write"]
        /\ UNCHANGED <<netVars, calls>>
        /\ UNCHANGED <<now, guardVars, soulVars, repVars, backupVars,
                       msgVars, instVars, scaleVars,
                       logVars, orderVars,
                       survVars,
                       sysVars>>
\* contribute_to_pool, lines 276-287: the write of contributors[agent_id],
\* the reputation boost of a registered contributor, and the return
ContributeLedgerWrite(t) ==
    LET c == threads[t]
    IN  /\ At(t, "contribute_to_pool", "ledger_write")
        /\ pools' = [pools EXCEPT ![c.pool_id].contributors =
                        (c.agent_id :> (c.read + c.amount)) @@ @]
        /\ agents' = IF c.agent_id \in DOMAIN agents
                     THEN [agents EXCEPT ![c.agent_id].reputation =
                              boosted(@, CONTRIBUTION_BOOST)]
                     ELSE agents
        /\ Return(t, "contribute_to_pool", TRUE)
        /\ UNCHANGED <<contributions, calls>>
        /\ UNCHANGED <<now, guardVars, soulVars, repVars, backupVars,
                       msgVars, instVars, scaleVars,
                       logVars, orderVars,
                       survVars,
                       sysVars>>
(***************************************************************************)
(* AgentCoordinationNetwork opened by several processes on one network_id. *)
(* Every instance reads the three state files once, in __init__, and every *)
(* _save_* rewrites a whole file from the instance's own memory.           *)
(***************************************************************************)

MaxInstOps == 3

Instances == {"i1", "i2"}

InstProfiles ==
    { Profile("a1", "CRITICAL", 1, 50, TRUE, FALSE, TRUE),
      Profile("a2", "NORMAL", 200, 50, TRUE, TRUE, FALSE) }
InstStatusUpdates == { [tier |-> "LOW", balance |-> 20] }
InstPoolIds == {"p1"}

\* a CoordinationMessage
Message(sender, recipient, msg_type) ==
    [msg_id |-> <<msg_type, sender, now>>, sender |-> sender,
     recipient |-> recipient, msg_type |-> msg_type, timestamp |-> now]

InstMessages == { Message(a, "broadcast", "alert") : a \in AgentIds }

NotOpen == [open |-> FALSE, agents |-> <<>>, messages |-> <<>>,
            pools |-> <<>>]

NoInstResult == [op |-> "init", instance |-> "none", agent_id |-> "none",
                 pool_id |-> "none", ok |-> FALSE]

\* an empty data directory, and no instance constructed yet
InstInit ==
    /\ disk = [agents |-> <<>>, messages |-> <<>>, pools |-> <<>>]
    /\ inst = [i \in Instances |-> NotOpen]
    /\ inst_ops = 0
    /\ inst_result = NoInstResult

InstResult(op, i, agent_id, pool_id, ok) ==
    [op |-> op, instance |-> i, agent_id |-> agent_id, pool_id |-> pool_id,
     ok |-> ok]

InstCall(i) ==
    /\ inst[i].open
    /\ inst_ops < MaxInstOps
    /\ inst_ops' = inst_ops + 1

\* __init__: _load_agents, _load_messages, _load_pools
InstOpen(i) ==
    /\ ~inst[i].open
    /\ inst' = [inst EXCEPT ![i] =
                  [open |-> TRUE, agents |-> disk.agents,
                   messages |-> disk.messages, pools |-> disk.pools]]
    /\ inst_result' = InstResult("__init__", i, "none", "none", TRUE)
    /\ UNCHANGED <<disk, inst_ops>>
    /\ UNCHANGED <<now, guardVars, netVars, soulVars, repVars, backupVars,
                   msgVars, concVars, scaleVars,
                       logVars, orderVars,
                       survVars,
                       sysVars>>
\* register_agent, then _save_agents
InstRegisterAgent(i, profile) ==
    LET ags == (profile.agent_id :> profile) @@ inst[i].agents
    IN  /\ InstCall(i)
        /\ inst' = [inst EXCEPT ![i].agents = ags]
        /\ disk' = [disk EXCEPT !.agents = ags]
        /\ inst_result' = InstResult("register_agent", i, profile.agent_id,
                                     "none", TRUE)
        /\ UNCHANGED <<now, guardVars, netVars, soulVars, repVars,
                       backupVars, msgVars, concVars, scaleVars,
                       logVars, orderVars,
                       survVars,
                       sysVars>>
\* update_agent_status, then _save_agents
InstUpdateAgentStatus(i, agent_id, kwargs) ==
    /\ InstCall(i)
    /\ IF agent_id \notin DOMAIN inst[i].agents
       THEN /\ inst_result' = InstResult("update_agent_status", i, agent_id,
                                         "none", FALSE)
            /\ UNCHANGED <<inst, disk>>
       ELSE LET ags == [inst[i].agents EXCEPT
                           ![agent_id] = updated_profile(@, kwargs)]
            IN  /\ inst' = [inst EXCEPT ![i].agents = ags]
                /\ disk' = [disk EXCEPT !.agents = ags]
                /\ inst_result' = InstResult("update_agent_status", i,
                                             agent_id, "none", TRUE)
    /\ UNCHANGED <<now, guardVars, netVars, soulVars, repVars, backupVars,
                   msgVars, concVars, scaleVars,
                       logVars, orderVars,
                       survVars,
                       sysVars>>
\* send_message, then _save_messages
InstSendMessage(i, message) ==
    LET log == sent(inst[i].messages, message)
    IN  /\ InstCall(i)
        /\ inst' = [inst EXCEPT ![i].messages = log]
        /\ disk' = [disk EXCEPT !.messages = log]
        /\ inst_result' = InstResult("send_message", i, message.sender,
                                     "none", TRUE)
        /\ UNCHANGED <<now, guardVars, netVars, soulVars, repVars,
                       backupVars, msgVars, concVars, scaleVars,
                       logVars, orderVars,
                       survVars,
                       sysVars>>
\* create_resource_pool, then _save_pools
InstCreateResourcePool(i, pool_id, creator_id, initial_contribution) ==
    LET pool == [name |-> "fund", total_balance |-> initial_contribution,
                 contributors |-> (creator_id :> initial_contribution),
                 loans |-> <<>>, created_at |-> now]
        pls == (pool_id :> pool) @@ inst[i].pools
    IN  /\ InstCall(i)
        /\ inst' = [inst EXCEPT ![i].pools = pls]
        /\ disk' = [disk EXCEPT !.pools = pls]
        /\ inst_result' = InstResult("create_resource_pool", i, creator_id,
                                     pool_id, TRUE)
        /\ UNCHANGED <<now, guardVars, netVars, soulVars, repVars,
                       backupVars, msgVars, concVars, scaleVars,
                       logVars, orderVars,
                       survVars,
                       sysVars>>
\* contribute_to_pool: _save_pools, and _save_agents after the reputation
\* boost of a registered contributor
InstContributeToPool(i, pool_id, agent_id, amount) ==
    /\ InstCall(i)
    /\ IF pool_id \notin DOMAIN inst[i].pools
       THEN /\ inst_result' = InstResult("contribute_to_pool", i, agent_id,
                                         pool_id, FALSE)
            /\ UNCHANGED <<inst, disk>>
       ELSE LET pls == [inst[i].pools EXCEPT ![pool_id] =
                           pool_after_contribution(@, agent_id, amount)]
                known == agent_id \in DOMAIN inst[i].agents
                ags == IF known
                       THEN [inst[i].agents EXCEPT ![agent_id].reputation =
                                boosted(@, CONTRIBUTION_BOOST)]
                       ELSE inst[i].agents
            IN  /\ inst' = [inst EXCEPT ![i].pools = pls, ![i].agents = ags]
                /\ disk' = [disk EXCEPT
                              !.pools = pls,
                              !.agents = IF known THEN ags ELSE @]
                /\ inst_result' = InstResult("contribute_to_pool", i,
                                             agent_id, pool_id, TRUE)
    /\ UNCHANGED <<now, guardVars, netVars, soulVars, repVars, backupVars,
                   msgVars, concVars, scaleVars,
                       logVars, orderVars,
                       survVars,
                       sysVars>>
\* request_loan, then _save_pools when the loan is granted
InstRequestLoan(i, pool_id, agent_id, amount, purpose) ==
    LET granted ==
            /\ pool_id \in DOMAIN inst[i].pools
            /\ ~ /\ agent_id \in DOMAIN inst[i].agents
                 /\ inst[i].agents[agent_id].reputation < MIN_LOAN_REPUTATION
            /\ ~ (inst[i].pools[pool_id].total_balance < amount)
    IN  /\ InstCall(i)
        /\ IF granted
           THEN LET pls == [inst[i].pools EXCEPT ![pool_id] =
                               pool_after_loan(@, agent_id, amount, purpose)]
                IN  /\ inst' = [inst EXCEPT ![i].pools = pls]
                    /\ disk' = [disk EXCEPT !.pools = pls]
           ELSE UNCHANGED <<inst, disk>>
        /\ inst_result' = InstResult("request_loan", i, agent_id, pool_id,
                                     granted)
        /\ UNCHANGED <<now, guardVars, netVars, soulVars, repVars,
                       backupVars, msgVars, concVars, scaleVars,
                       logVars, orderVars,
                       survVars,
                       sysVars>>
(***************************************************************************)
(* AutoScalingManager (auto_scaling.py): spawning children from the        *)
(* parent's soul.  Balances and funding are in units of 0.0005 ETH.        *)
(* An optional argument is a sequence: <<>> for None, <<x>> for x.         *)
(***************************************************************************)

MaxChildren == 2

SPAWN_THRESHOLD == 1000
SPAWN_RECOMMENDED == 2000
SPAWN_AGGRESSIVE == 4000
CHILD_FUNDING == 200
MIN_PARENT_RESERVE == 400
\* _load_config: "max_children": 10, and the top 3 capabilities of mode "best"
MAX_CHILDREN == 10
INHERITED_BEST == 3
\* min(2, max_spawnable) of should_spawn
RECOMMENDED_COUNT == 2

None == <<>>
FundingChoices == {None, <<0>>, <<-200>>, <<100>>, <<200>>, <<700>>}
ParentBalances == {300, 500, 600, 1000, 3000, 4000}

NoScaleResult == [op |-> "init", funding |-> 0, before |-> 0, had |-> 0,
                  ok |-> FALSE, count |-> 0]

\* __init__, _load_children: no children.json yet
ScaleInit ==
    /\ children = <<>>
    /\ scale_result = NoScaleResult

\* Variant of should_spawn used to test the properties below: the
\* recommended count of two is not capped by what can be spawned.
should_spawn_two_uncapped(kids, balance) ==
    LET current_children == Len(kids)
        available == balance - MIN_PARENT_RESERVE
        max_spawnable == Min(available \div CHILD_FUNDING,
                             MAX_CHILDREN - current_children)
    IN  IF current_children >= MAX_CHILDREN
        THEN [should_spawn |-> FALSE, count |-> 0,
              reason |-> "max_children_reached"]
        ELSE IF balance < SPAWN_THRESHOLD
        THEN [should_spawn |-> FALSE, count |-> 0,
              reason |-> "insufficient_balance"]
        ELSE IF balance >= SPAWN_AGGRESSIVE
        THEN [should_spawn |-> TRUE, count |-> max_spawnable,
              reason |-> "aggressive_spawning"]
        ELSE IF balance >= SPAWN_RECOMMENDED
        THEN [should_spawn |-> TRUE, count |-> RECOMMENDED_COUNT,
              reason |-> "recommended_spawning"]
        ELSE [should_spawn |-> TRUE, count |-> 1, reason |-> "can_spawn"]

\* should_spawn; int(available / CHILD_FUNDING) is taken only where
\* available is positive, and is the quotient rounded down
should_spawn(kids, balance) ==
    LET current_children == Len(kids)
        available == balance - MIN_PARENT_RESERVE
        max_spawnable == Min(available \div CHILD_FUNDING,
                             MAX_CHILDREN - current_children)
    IN  IF current_children >= MAX_CHILDREN
        THEN [should_spawn |-> FALSE, count |-> 0,
              reason |-> "max_children_reached"]
        ELSE IF balance < SPAWN_THRESHOLD
        THEN [should_spawn |-> FALSE, count |-> 0,
              reason |-> "insufficient_balance"]
        ELSE IF balance >= SPAWN_AGGRESSIVE
        THEN [should_spawn |-> TRUE, count |-> max_spawnable,
              reason |-> "aggressive_spawning"]
        ELSE IF balance >= SPAWN_RECOMMENDED
        THEN [should_spawn |-> TRUE,
              count |-> Min(RECOMMENDED_COUNT, max_spawnable),
              reason |-> "recommended_spawning"]
        ELSE [should_spawn |-> TRUE, count |-> 1, reason |-> "can_spawn"]

\* select_inherited_capabilities, mode "best": the names of the three
\* capabilities with the highest earnings
select_inherited_capabilities(capabilities) ==
    LET names == DOMAIN capabilities
        n == Min(INHERITED_BEST, Cardinality(names))
    IN  CHOOSE best \in SUBSET names :
            /\ Cardinality(best) = n
            /\ \A b \in best, c \in names \ best :
                  capabilities[b].earnings >= capabilities[c].earnings

\* funding = funding or self.CHILD_FUNDING
funding_used(funding) ==
    IF funding = None \/ funding[1] = 0 THEN CHILD_FUNDING ELSE funding[1]

\* the parent's soul and the manager's children as one value; child is the
\* ChildAgent returned by the last spawn_child, None if it returned None
Lineage(parent_soul, kids, child) ==
    [soul |-> parent_soul, children |-> kids, child |-> child]

\* Variant of spawn_child used to test the properties below: a child is
\* spawned whenever the parent can pay the funding.
spawn_child_no_reserve(lin, funding) ==
    LET used == funding_used(funding)
        child == [child_id |-> <<Len(lin.children) + 1, now>>,
                  inherited_capabilities |->
                      select_inherited_capabilities(lin.soul.capabilities),
                  initial_funding |-> used, birth_time |-> now,
                  status |-> "gestating", earnings |-> 0]
    IN  IF lin.soul.current_balance - used < 0
        THEN Lineage(lin.soul, lin.children, None)
        ELSE Lineage([lin.soul EXCEPT !.current_balance = @ - used],
                     Append(lin.children, child), <<child>>)

\* spawn_child
spawn_child(lin, funding) ==
    LET used == funding_used(funding)
        child == [child_id |-> <<Len(lin.children) + 1, now>>,
                  inherited_capabilities |->
                      select_inherited_capabilities(lin.soul.capabilities),
                  initial_funding |-> used, birth_time |-> now,
                  status |-> "gestating", earnings |-> 0]
    IN  IF lin.soul.current_balance - used < MIN_PARENT_RESERVE
        THEN Lineage(lin.soul, lin.children, None)
        ELSE Lineage([lin.soul EXCEPT !.current_balance = @ - used],
                     Append(lin.children, child), <<child>>)

\* provision_child
provision_child(kids, child_id) ==
    [k \in DOMAIN kids |->
        IF kids[k].child_id = child_id
        THEN [kids[k] EXCEPT !.status = "alive"] ELSE kids[k]]

\* auto_scale: the loop over range(count)
RECURSIVE spawn_loop(_, _)
spawn_loop(count, lin) ==
    IF count <= 0 THEN lin
    ELSE LET after == spawn_child(lin, <<CHILD_FUNDING>>)
         IN  spawn_loop(count - 1,
                IF after.child = None THEN after
                ELSE Lineage(after.soul,
                             provision_child(after.children,
                                             after.child[1].child_id),
                             after.child))

lineage == Lineage(soul, children, None)

\* spawn_child called with a funding
SpawnChildCall(funding) ==
    LET after == spawn_child(lineage, funding)
    IN  /\ soul' = after.soul
        /\ children' = after.children
        /\ scale_result' = [op |-> "spawn_child",
                            funding |-> funding_used(funding),
                            before |-> soul.current_balance,
                            had |-> Len(children),
                            ok |-> after.child # None,
                            count |-> Len(after.children) - Len(children)]
        /\ UNCHANGED tier_result
        /\ UNCHANGED <<now, guardVars, netVars, repVars, backupVars, msgVars,
                       concVars, instVars,
                       logVars, orderVars,
                       survVars,
                       sysVars>>

\* spawn_child, while the manager has fewer than MaxChildren children
SpawnChild(funding) ==
    /\ Len(children) < MaxChildren
    /\ SpawnChildCall(funding)

ProvisionChild(k) ==
    /\ k \in DOMAIN children
    /\ children[k].status = "gestating"
    /\ children' = provision_child(children, children[k].child_id)
    /\ scale_result' = [NoScaleResult EXCEPT !.op = "provision_child",
                           !.before = soul.current_balance,
                           !.had = Len(children), !.ok = TRUE]
    /\ UNCHANGED <<now, guardVars, netVars, soulVars, repVars, backupVars,
                   msgVars, concVars, instVars,
                       logVars, orderVars,
                       survVars,
                       sysVars>>
\* auto_scale, with the default config ("auto_spawn": True)
AutoScale ==
    LET recommendation == should_spawn(children, soul.current_balance)
        after == IF recommendation.should_spawn
                 THEN spawn_loop(recommendation.count, lineage)
                 ELSE lineage
    IN  /\ soul' = after.soul
        /\ children' = after.children
        /\ scale_result' = [op |-> "auto_scale", funding |-> CHILD_FUNDING,
                            before |-> soul.current_balance,
                            had |-> Len(children),
                            ok |-> recommendation.should_spawn,
                            count |-> Len(after.children) - Len(children)]
        /\ UNCHANGED tier_result
        /\ UNCHANGED <<now, guardVars, netVars, repVars, backupVars, msgVars,
                       concVars, instVars,
                       logVars, orderVars,
                       survVars,
                       sysVars>>
(***************************************************************************)
(* AgentCoordinationNetwork (agent_coordination.py): the message log at    *)
(* its cap, with the three callers of send_message.                        *)
(***************************************************************************)

\* lengths of the log found in messages.json
LoadedLengths == {KEEP_MESSAGES - 1, KEEP_MESSAGES}
\* the agent that sends, asks and offers, and the agent help is offered to
LogSenders == {"a1"}
LogTargets == {"a1"}
HelpTypes == {"funding", "general"}

\* a log of n messages written by earlier runs
LoadedLog(n) == [i \in 1..n |-> Message("a2", "broadcast", i)]

\* no message sent yet
LogInit == outbox = <<>>

\* request_help: the help request message
help_request(agent_id, help_type, ags) ==
    [Message(agent_id, "broadcast", "help_request") EXCEPT
        !.msg_id = <<"help", now, agent_id>>]
      @@ [content |-> [help_type |-> help_type,
                       urgency |-> IF ags[agent_id].tier = "CRITICAL"
                                   THEN "critical" ELSE "normal"]]

\* request_help: the ids returned
helper_ids(agent_id, help_type, ags) ==
    { h \in DOMAIN ags \ {agent_id} :
        IF help_type = "funding"
        THEN ags[h].tier = "THRIVING"
        ELSE ags[h].offers_help }

\* send_message called directly
SendMessage(message) ==
    /\ Len(outbox) < KEEP_MESSAGES + MaxMessages - 1
    /\ messages' = sent(messages, message)
    /\ outbox' = Append(outbox, message)
    /\ aid_result' = [NoAidResult EXCEPT !.op = "send_message",
                         !.logged = Len(messages)]
    /\ UNCHANGED <<now, guardVars, netVars, soulVars, repVars, backupVars,
                   concVars, instVars, scaleVars,
                       orderVars,
                       survVars,
                       sysVars>>
\* request_help
RequestHelp(agent_id, help_type) ==
    /\ Len(outbox) < KEEP_MESSAGES + MaxMessages - 1
    /\ IF agent_id \notin DOMAIN agents
       THEN /\ aid_result' = [NoAidResult EXCEPT !.op = "request_help",
                                 !.logged = Len(messages)]
            /\ UNCHANGED <<agents, messages, outbox>>
       ELSE LET ags == [agents EXCEPT ![agent_id] =
                           updated_profile(@, [seeking_help |-> TRUE])]
                msg == help_request(agent_id, help_type, ags)
            IN  /\ agents' = ags
                /\ messages' = sent(messages, msg)
                /\ outbox' = Append(outbox, msg)
                /\ aid_result' =
                      [op |-> "request_help",
                       matches |-> Cardinality(helper_ids(agent_id,
                                                          help_type, ags)),
                       before |-> agents, logged |-> Len(messages)]
    /\ UNCHANGED <<pools, contributions, net_result>>
    /\ UNCHANGED <<now, guardVars, soulVars, repVars, backupVars,
                   concVars, instVars, scaleVars,
                       orderVars,
                       survVars,
                       sysVars>>
\* offer_help
OfferHelp(agent_id, target_agent) ==
    LET after == offer_help(Network(agents, messages, 0), agent_id,
                            target_agent)
    IN  /\ Len(outbox) < KEEP_MESSAGES + MaxMessages - 1
        /\ agents' = after.agents
        /\ messages' = after.messages
        /\ outbox' = Append(outbox, after.messages[Len(after.messages)])
        /\ aid_result' = [op |-> "offer_help", matches |-> 0,
                          before |-> agents, logged |-> Len(messages)]
        /\ UNCHANGED <<pools, contributions, net_result>>
        /\ UNCHANGED <<now, guardVars, soulVars, repVars, backupVars,
                       concVars, instVars, scaleVars,
                       orderVars,
                       survVars,
                       sysVars>>
(***************************************************************************)
(* AgentCoordinationNetwork (agent_coordination.py): the registry as the   *)
(* dict it is, with the insertion order of its keys.                       *)
(***************************************************************************)

\* two needy agents, and two helpers that tie at 40 and at the cap
TieProfiles ==
    { Profile("n1", "CRITICAL", 1, 30, TRUE, FALSE, TRUE),
      Profile("n2", "CRITICAL", 1, 30, TRUE, FALSE, TRUE),
      Profile("h1", "NORMAL", 200, 40, TRUE, TRUE, FALSE),
      Profile("h1", "NORMAL", 200, 100, TRUE, TRUE, FALSE),
      Profile("h2", "THRIVING", 2000, 40, TRUE, TRUE, FALSE),
      Profile("h2", "THRIVING", 2000, 100, TRUE, TRUE, FALSE) }

\* the agent ids of TieProfiles in lexical order
LexicalOrder == <<"h1", "h2", "n1", "n2">>

\* an empty registry
OrderInit == registered = <<>>

\* register_agent: self.agents[profile.agent_id] = profile; a new key goes
\* to the end of the dict, a key already present keeps its place
RegisterAgentInOrder(profile) ==
    /\ agents' = (profile.agent_id :> profile) @@ agents
    /\ registered' = IF profile.agent_id \in Range(registered)
                     THEN registered
                     ELSE Append(registered, profile.agent_id)
    /\ net_result' = [NoNetResult EXCEPT !.op = "register_agent", !.ok = TRUE]
    /\ UNCHANGED <<pools, contributions>>
    /\ UNCHANGED <<now, guardVars, soulVars, repVars, backupVars, msgVars,
                   concVars, instVars, scaleVars, logVars,
                       survVars,
                       sysVars>>
(***************************************************************************)
(* EnhancedSoulSurvival (enhanced_survival.py) over OnChainSoulManager and *)
(* a SoulMarketplaceAdapter in simulation mode.  Time is counted in units  *)
(* of 30 minutes, balances in units of 0.0005 ETH.                         *)
(***************************************************************************)
\* Bounds of the survival model.
MaxClock == 2
MaxHistory == 3
MaxWork == 2

\* backup_config.backup_interval: 3600 seconds, enhanced_survival.py:91
BACKUP_INTERVAL == 2

\* inputs of record_work
SurvivalWork == {2, 20, 200}
SurvivalCapability == "code_generation"
\* the work recorded where backups are restored
RestoreWork == {2}

NoSurvResult ==
    [op |-> "init", ok |-> FALSE, action |-> "none", made |-> 0,
     restorable |-> FALSE]

\* _load_or_create_soul
NewSoul ==
    [id |-> "agent", status |-> "ALIVE",
     capabilities |-> [c \in {SurvivalCapability} |->
                          [earnings |-> 0, uses |-> 0]],
     total_lifetime_earnings |-> 0,
     current_balance |-> 0,
     backup_interval |-> BACKUP_INTERVAL,
     listed_count |-> 0,
     on_chain |-> 0]

\* _load_state; token_id 0 is None
NewState == [token_id |-> 0, last_backup_time |-> 0, backup_count |-> 0]

\* SoulMarketplaceAdapter.__init__: the account loaded or not, and an empty
\* simulation_state
NewAdapter(account) == [account |-> account, souls |-> 0, backups |-> 0]

\* __init__ with no files on disk and a clock that is more than an interval
\* past the epoch, with or without a private key
Constructed(account) ==
    /\ clock = BACKUP_INTERVAL
    /\ survivor = [soul |-> NewSoul, state |-> NewState,
                   onchain |-> NewAdapter(account)]
    /\ surv_result = NoSurvResult

\* EnhancedSoulSurvival(soul_id): no private key
SurvInit == Constructed(FALSE)

\* the object with the manager's history and the cache directory, as the
\* methods below pass it on
Survival(sv, history, cache) ==
    [soul |-> sv.soul, state |-> sv.state, onchain |-> sv.onchain,
     history |-> history, cache |-> cache]

\* get_tier
survival_tier(current_soul) ==
    IF current_soul.current_balance < CRITICAL THEN "CRITICAL"
    ELSE IF current_soul.current_balance < LOW THEN "LOW"
    ELSE IF current_soul.current_balance < NORMAL THEN "NORMAL"
    ELSE "THRIVING"

\* backup_soul: the record appended for a backup made at time t
backup_record(soul_data, backup_type, t) ==
    [cid |-> calculate_hash(dumps(soul_data)), hash |-> sha256(soul_data),
     timestamp |-> t, type |-> backup_type,
     earnings |-> soul_data.total_lifetime_earnings]

\* Variant of recorded used to test the properties below: only the latest
\* record is kept.
recorded_latest_only(history, record) == <<record>>

\* backup_soul: the history after the backup
recorded(history, record) == Append(history, record)

\* create_backup
create_backup(s, backup_type, t) ==
    [s EXCEPT
        !.cache = uploaded(@, s.soul),
        !.history = recorded(@, backup_record(s.soul, backup_type, t)),
        !.onchain.backups = IF s.state.token_id # 0 THEN @ + 1 ELSE @,
        !.state.last_backup_time = t,
        !.state.backup_count = @ + 1]

\* Variant of check_auto_backup used to test the properties below: a backup
\* is due only after more than the interval.
check_auto_backup_late(s, t) ==
    IF t - s.state.last_backup_time > s.soul.backup_interval
    THEN create_backup(s, "auto", t)
    ELSE s

\* _check_auto_backup
check_auto_backup(s, t) ==
    IF t - s.state.last_backup_time >= s.soul.backup_interval
    THEN create_backup(s, "auto", t)
    ELSE s

\* mint_on_chain
mint_on_chain(s, t) ==
    LET backed == create_backup(s, "mint", t)
        token_id == IF backed.onchain.account
                    THEN backed.onchain.souls + 1 ELSE 0
    IN  IF token_id # 0
        THEN [backed EXCEPT !.onchain.souls = token_id,
                            !.state.token_id = token_id,
                            !.soul.on_chain = token_id]
        ELSE backed

\* list_soul_for_sale of the adapter: the token is one of its souls
list_soul_for_sale(s) == s.state.token_id \in 1..s.onchain.souls

\* list_for_survival: the object after the call
list_for_survival(s, t) ==
    LET backed == create_backup(s, "critical", t)
        minted == IF backed.state.token_id = 0
                  THEN mint_on_chain(backed, t) ELSE backed
    IN  IF minted.state.token_id # 0 /\ list_soul_for_sale(minted)
        THEN [minted EXCEPT !.soul.status = "DYING",
                            !.soul.listed_count = @ + 1]
        ELSE minted

\* list_for_survival: its return
listed(s, t) ==
    LET backed == create_backup(s, "critical", t)
        minted == IF backed.state.token_id = 0
                  THEN mint_on_chain(backed, t) ELSE backed
    IN  minted.state.token_id # 0 /\ list_soul_for_sale(minted)

\* heartbeat: the object after the call
heartbeat(s, t) ==
    LET tier == survival_tier(s.soul)
    IN  CASE tier = "CRITICAL" -> list_for_survival(s, t)
          [] tier \in {"LOW", "NORMAL"} -> check_auto_backup(s, t)
          [] tier = "THRIVING" -> create_backup(s, "thriving", t)

\* heartbeat: result['action']
heartbeat_action(s, t) ==
    LET tier == survival_tier(s.soul)
    IN  CASE tier = "CRITICAL" ->
                 IF listed(s, t) THEN "listed_for_survival"
                 ELSE "critical_no_action"
          [] tier = "LOW" -> "conservation_mode"
          [] tier = "NORMAL" -> "normal_operations"
          [] tier = "THRIVING" -> "thriving"

\* get_backup_status: restorable
restorable(s) == Len(s.history) > 0 \/ s.onchain.backups > 0

\* the call has been made and left the object as `after`
Survived(op, after, ok) ==
    /\ survivor' = [soul |-> after.soul, state |-> after.state,
                    onchain |-> after.onchain]
    /\ backup_history' = after.history
    /\ ipfs_cache' = after.cache
    /\ surv_result' =
          [op |-> op, ok |-> ok, action |-> "none",
           made |-> Len(after.history) - Len(backup_history),
           restorable |-> restorable(after)]
    /\ UNCHANGED <<clock, backup_result>>
    /\ UNCHANGED <<now, guardVars, netVars, soulVars, repVars, msgVars,
                   concVars, instVars, scaleVars, logVars, orderVars,
                       sysVars>>

\* time passes
ClockTick ==
    /\ clock < BACKUP_INTERVAL + MaxClock
    /\ clock' = clock + 1
    /\ UNCHANGED <<survivor, surv_result>>
    /\ UNCHANGED <<now, guardVars, netVars, soulVars, repVars, backupVars,
                   msgVars, concVars, instVars, scaleVars, logVars,
                   orderVars,
                       sysVars>>

\* record_work, with backups enabled
SurvivalRecordWork(capability, value) ==
    LET s == Survival(survivor, backup_history, ipfs_cache)
        worked == [s EXCEPT
                      !.soul.total_lifetime_earnings = @ + value,
                      !.soul.current_balance = @ + value,
                      !.soul.capabilities =
                          IF capability \in DOMAIN @
                          THEN [@ EXCEPT ![capability] =
                                   [earnings |-> @.earnings + value,
                                    uses |-> @.uses + 1]]
                          ELSE @]
    IN  /\ capability \in DOMAIN survivor.soul.capabilities =>
               survivor.soul.capabilities[capability].uses < MaxWork
        /\ Len(backup_history) < MaxHistory
        /\ Survived("record_work", check_auto_backup(worked, clock), TRUE)

\* create_backup
CreateBackup(backup_type) ==
    /\ Len(backup_history) < MaxHistory
    /\ Survived("create_backup",
                create_backup(Survival(survivor, backup_history, ipfs_cache),
                              backup_type, clock), TRUE)

\* get_backup_status
GetBackupStatus ==
    Survived("get_backup_status",
             Survival(survivor, backup_history, ipfs_cache), TRUE)

\* heartbeat
Heartbeat ==
    LET s == Survival(survivor, backup_history, ipfs_cache)
    IN  /\ Len(backup_history) + 2 <= MaxHistory
        /\ survivor' = [soul |-> heartbeat(s, clock).soul,
                        state |-> heartbeat(s, clock).state,
                        onchain |-> heartbeat(s, clock).onchain]
        /\ backup_history' = heartbeat(s, clock).history
        /\ ipfs_cache' = heartbeat(s, clock).cache
        /\ surv_result' =
              [op |-> "heartbeat", ok |-> TRUE,
               action |-> heartbeat_action(s, clock),
               made |-> Len(heartbeat(s, clock).history) - Len(s.history),
               restorable |-> restorable(s)]
        /\ UNCHANGED <<clock, backup_result>>
        /\ UNCHANGED <<now, guardVars, netVars, soulVars, repVars, msgVars,
                       concVars, instVars, scaleVars, logVars, orderVars,
                       sysVars>>

\* the soul of another EnhancedSoulSurvival, which has earned n
OtherSurvivor(n) ==
    [NewSoul EXCEPT !.id = "other", !.total_lifetime_earnings = n,
                    !.current_balance = n]

\* create_backup of another EnhancedSoulSurvival: its upload goes to the
\* cache directory that every IPFSStorage of the installation shares
OtherCreateBackup ==
    /\ Len(ipfs_cache) < MaxCacheFiles
    /\ ipfs_cache' = uploaded(ipfs_cache, OtherSurvivor(Len(ipfs_cache)))
    /\ UNCHANGED <<backup_history, backup_result>>
    /\ UNCHANGED <<now, guardVars, netVars, soulVars, repVars, msgVars,
                   concVars, instVars, scaleVars, logVars, orderVars,
                   survVars,
                       sysVars>>

\* restore_from_backup of EnhancedSoulSurvival; cid = NoCid is the default
\* None (latest backup)
SurvivalRestore(cid) ==
    LET s == Survival(survivor, backup_history, ipfs_cache)
        used == IF cid = NoCid /\ backup_history # <<>>
                THEN backup_history[Len(backup_history)].cid
                ELSE cid
        restored == IF used = NoCid THEN <<>> ELSE retrieve_from_ipfs(used)
    IN  IF restored # <<>>
        THEN Survived("restore_from_backup", [s EXCEPT !.soul = restored],
                      TRUE)
        ELSE Survived("restore_from_backup", s, FALSE)

\* heartbeat while the backup store is down: upload_to_ipfs raises, nothing
\* catches it, and the first backup the heartbeat attempts ends the call
\* before anything has been changed
HeartbeatStoreDown ==
    LET s == Survival(survivor, backup_history, ipfs_cache)
        tier == survival_tier(s.soul)
        due == clock - s.state.last_backup_time >= s.soul.backup_interval
        raised == tier \in {"CRITICAL", "THRIVING"} \/ due
    IN  /\ surv_result' =
              [op |-> "heartbeat", ok |-> ~raised,
               action |-> IF raised THEN "raised"
                          ELSE heartbeat_action(s, clock),
               made |-> 0, restorable |-> restorable(s)]
        /\ UNCHANGED <<clock, survivor, backupVars>>
        /\ UNCHANGED <<now, guardVars, netVars, soulVars, repVars, msgVars,
                       concVars, instVars, scaleVars, logVars, orderVars,
                       sysVars>>

\* Variant of create_backup_anchoring used to test the properties below: the
\* state is updated only when the on-chain record was made.
create_backup_anchored_only(s, backup_type, t, anchored) ==
    IF s.state.token_id # 0 /\ ~anchored
    THEN [s EXCEPT
            !.cache = uploaded(@, s.soul),
            !.history = recorded(@, backup_record(s.soul, backup_type, t))]
    ELSE create_backup(s, backup_type, t)

\* create_backup with an adapter whose create_backup returns `anchored`
\* (False when the transaction fails or raises); the return is not looked at
create_backup_anchoring(s, backup_type, t, anchored) ==
    [s EXCEPT
        !.cache = uploaded(@, s.soul),
        !.history = recorded(@, backup_record(s.soul, backup_type, t)),
        !.onchain.backups = IF s.state.token_id # 0 /\ anchored
                            THEN @ + 1 ELSE @,
        !.state.last_backup_time = t,
        !.state.backup_count = @ + 1]

\* create_backup, with its return and the outcome of the on-chain record
CreateBackupAnchoring(backup_type, anchored) ==
    LET s == Survival(survivor, backup_history, ipfs_cache)
        after == create_backup_anchoring(s, backup_type, clock, anchored)
    IN  /\ Len(backup_history) < MaxHistory
        /\ survivor' = [soul |-> after.soul, state |-> after.state,
                        onchain |-> after.onchain]
        /\ backup_history' = after.history
        /\ ipfs_cache' = after.cache
        /\ backup_result' = [op |-> "create_backup",
                             cid |-> calculate_hash(dumps(s.soul)),
                             ok |-> TRUE, data |-> <<>>]
        /\ surv_result' =
              [op |-> "create_backup", ok |-> TRUE,
               action |-> IF s.state.token_id = 0 THEN "not_minted"
                          ELSE IF anchored THEN "anchored"
                          ELSE "anchor_failed",
               made |-> 1, restorable |-> restorable(after)]
        /\ UNCHANGED clock
        /\ UNCHANGED <<now, guardVars, netVars, soulVars, repVars, msgVars,
                       concVars, instVars, scaleVars, logVars, orderVars,
                       sysVars>>

\* __init__: self.running = False, self.cycle_count = 0
NoSystem == [running |-> FALSE, pc |-> "constructed", cycles |-> 0,
             tier |-> "none", balance |-> 0, todo |-> 0,
             halted_at |-> "none", last |-> "none"]

SysInit == system = NoSystem

vars == <<now, guardVars, netVars, soulVars, extVars>>

Init ==
    /\ now = 0
    /\ GuardInit
    /\ NetInit
    /\ SoulInit
    /\ RepInit
    /\ BackupInit
    /\ MsgInit
    /\ ConcInit
    /\ InstInit
    /\ ScaleInit
    /\ OrderInit
    /\ SurvInit
    /\ LogInit
    /\ SysInit

Next ==
    \/ \E a \in Amounts, r \in OptRecipients : CanSpend(a, r)
    \/ \E a \in Amounts, r \in Recipients, p \in Purposes :
          RecordSpending(a, r, p)
    \/ \E a \in Amounts, r \in Recipients, p \in Purposes, m \in BOOLEAN :
          SpendCall(a, r, p, m)
    \/ GetSpendingReport
    \/ \E d \in DailyChoices, w \in WeeklyChoices : SetLimits(d, w)
    \/ \E b \in BOOLEAN : EmergencyStopToggle(b)
    \/ Tick

Spec == Init /\ [][Next]_vars

\* Resource pools: registration, pool creation, contributions and loans.
NextPool ==
    \/ \E p \in PoolProfiles : RegisterAgent(p)
    \/ \E p \in PoolIds, a \in PoolCreators, x \in InitialContributions :
          CreateResourcePool(p, a, x)
    \/ \E p \in PoolIds, a \in AgentIds, x \in ContributionAmounts :
          ContributeToPool(p, a, x)
    \/ \E p \in PoolIds, a \in AgentIds, x \in LoanAmounts,
          u \in LoanPurposes : RequestLoan(p, a, x, u)

SpecPool == Init /\ [][NextPool]_vars

\* The agent registry: registration, status updates and the help query.
NextRegistry ==
    \/ \E p \in RegistryProfiles : RegisterAgent(p)
    \/ \E a \in AgentIds, k \in StatusUpdates : UpdateAgentStatus(a, k)
    \/ FindAgentsNeedingHelp

SpecRegistry == Init /\ [][NextRegistry]_vars

\* The soul: work is recorded and the tier is read.
NextTier ==
    \/ \E c \in WorkCapabilities, v \in WorkValues : RecordWork(c, v)
    \/ GetTier

SpecTier == Init /\ [][NextTier]_vars

\* The reputation engine: events are recorded and scores are calculated.
NextRep ==
    \/ \E a \in RepAgents : CalculateReputation(a)
    \/ \E a \in RepAgents, k \in PerformanceUpdates : UpdatePerformance(a, k)
    \/ \E a \in RepAgents, v \in TaskValues, s \in BOOLEAN :
          RecordTaskCompletion(a, v, s)
    \/ \E a \in RepAgents, x \in TradeAmounts, s \in BOOLEAN :
          RecordTrade(a, x, s)
    \/ \E a \in RepAgents, s \in BOOLEAN : RecordClone(a, s)
    \/ \E a \in RepAgents : RecordBackup(a)
    \/ Tick

SpecRep == Init /\ [][NextRep]_vars

\* Backups: this soul is backed up and restored while other souls upload to
\* the shared cache and the disk is healed.
NextBackup ==
    \/ \E d \in Souls, t \in BackupTypes : BackupSoul(d, t)
    \/ UploadToIpfs
    \/ HealDisk
    \/ \E d \in Souls : RestoreFromBackup(calculate_hash(dumps(d)))
    \/ RestoreFromBackup(NoCid)

SpecBackup == Init /\ [][NextBackup]_vars

\* Mutual aid: agents register and rounds of mutual aid are run.
NextAid ==
    \/ \E p \in AidProfiles : RegisterAgent(p)
    \/ \E o \in Orders(DOMAIN agents) : RunMutualAidRound(o)

SpecAid == Init /\ [][NextAid]_vars

\* Two threads of one process borrowing from and contributing to the
\* pools of one shared network object.
NextConc ==
    \/ \E p \in PoolIds, a \in PoolCreators, x \in InitialContributions :
          pools = <<>> /\ CreateResourcePool(p, a, x)
    \/ \E t \in Threads, p \in PoolIds, a \in AgentIds, x \in LoanAmounts,
          u \in LoanPurposes : LoanBegin(t, p, a, x, u)
    \/ \E t \in Threads : LoanCheck(t)
    \/ \E t \in Threads : LoanAppend(t)
    \/ \E t \in Threads : LoanDebitRead(t)
    \/ \E t \in Threads : LoanDebitWrite(t)
    \/ \E t \in Threads, p \in PoolIds, a \in AgentIds,
          x \in ThreadContributions : ContributeBegin(t, p, a, x)
    \/ \E t \in Threads : ContributeCreditRead(t)
    \/ \E t \in Threads : ContributeCreditWrite(t)
    \/ \E t \in Threads : ContributeLedgerRead(t)
    \/ \E t \in Threads : ContributeLedgerWrite(t)

SpecConc == Init /\ [][NextConc]_vars

\* Two processes, each with its own instance on the same network_id.
NextInst ==
    \/ \E i \in Instances : InstOpen(i)
    \/ \E i \in Instances, p \in InstProfiles : InstRegisterAgent(i, p)
    \/ \E i \in Instances, a \in AgentIds, k \in InstStatusUpdates :
          InstUpdateAgentStatus(i, a, k)
    \/ \E i \in Instances, m \in InstMessages : InstSendMessage(i, m)
    \/ \E i \in Instances, p \in InstPoolIds, a \in PoolCreators,
          x \in InitialContributions : InstCreateResourcePool(i, p, a, x)
    \/ \E i \in Instances, p \in InstPoolIds, a \in AgentIds,
          x \in ThreadContributions : InstContributeToPool(i, p, a, x)
    \/ \E i \in Instances, p \in InstPoolIds, a \in AgentIds,
          x \in LoanAmounts, u \in LoanPurposes :
          InstRequestLoan(i, p, a, x, u)

SpecInst == Init /\ [][NextInst]_vars

\* The parent's soul as loaded from its file, with some balance.
InitScale ==
    /\ now = 0
    /\ GuardInit
    /\ NetInit
    /\ \E b \in ParentBalances :
          soul = [current_balance |-> b, total_lifetime_earnings |-> b,
                  capabilities |->
                      [c \in CapabilityNames |-> [earnings |-> 0, uses |-> 0]]]
    /\ tier_result = [op |-> "init", value |-> 0, tier |-> "none"]
    /\ RepInit
    /\ BackupInit
    /\ MsgInit
    /\ ConcInit
    /\ InstInit
    /\ ScaleInit
    /\ OrderInit
    /\ SurvInit
    /\ LogInit
    /\ SysInit

\* Spawning: direct spawn_child calls, auto_scale, and provisioning.
NextScale ==
    \/ \E f \in FundingChoices : SpawnChild(f)
    \/ \E k \in 1..MAX_CHILDREN : ProvisionChild(k)
    \/ AutoScale

SpecScale == InitScale /\ [][NextScale]_vars

\* The guardrails over more than a week: spending is recorded at time 0,
\* and the windows are looked at then and on later days.
NextWeek ==
    \/ \E a \in Amounts, r \in OptRecipients : CanSpend(a, r)
    \/ \E a \in Amounts, r \in Recipients, p \in Purposes :
          now = 0 /\ RecordSpending(a, r, p)
    \/ GetSpendingReport
    \/ Tick
    \/ TickWeek

SpecWeek == Init /\ [][NextWeek]_vars

\* can_spend at the thresholds, with limits, blacklist, emergency stop and
\* earlier spending varying.
NextDecide ==
    \/ \E a \in ThresholdAmounts, r \in OptRecipients : CanSpend(a, r)
    \/ \E a \in Amounts, r \in Recipients, p \in Purposes :
          RecordSpending(a, r, p)
    \/ \E d \in DailyChoices, w \in WeeklyChoices : SetLimits(d, w)
    \/ \E b \in BOOLEAN : EmergencyStopToggle(b)
    \/ Tick

SpecDecide == Init /\ [][NextDecide]_vars

\* spend() around LARGE_PAYMENT_MIN, after smaller payments, with limits,
\* emergency stop and the day varying.
NextLarge ==
    \/ \E a \in LargeAmounts, r \in Recipients, p \in Purposes,
          m \in BOOLEAN : SpendCall(a, r, p, m)
    \/ \E d \in DailyChoices, w \in WeeklyChoices : SetLimits(d, w)
    \/ \E b \in BOOLEAN : EmergencyStopToggle(b)
    \/ Tick

SpecLarge == Init /\ [][NextLarge]_vars

\* The network constructed over a messages.json at or just below the cap.
InitLog ==
    /\ now = 0
    /\ GuardInit
    /\ NetInit
    /\ SoulInit
    /\ RepInit
    /\ BackupInit
    /\ \E n \in LoadedLengths :
          /\ messages = LoadedLog(n)
          /\ outbox = LoadedLog(n)
    /\ aid_result = NoAidResult
    /\ ConcInit
    /\ InstInit
    /\ ScaleInit
    /\ OrderInit
    /\ SurvInit
    /\ SysInit

\* Messages sent directly, by request_help and by offer_help.
NextLog ==
    \/ \E p \in InstProfiles : RegisterAgent(p)
    \/ \E a \in LogSenders : SendMessage(Message(a, "broadcast", "alert"))
    \/ \E a \in LogSenders, t \in HelpTypes : RequestHelp(a, t)
    \/ \E a \in LogSenders, b \in LogTargets : OfferHelp(a, b)

SpecLog == InitLog /\ [][NextLog]_vars

\* Mutual aid over the registry in its insertion order.
NextTie ==
    \/ \E p \in TieProfiles : RegisterAgentInOrder(p)
    \/ RunMutualAidRound(registered)

SpecTie == Init /\ [][NextTie]_vars

\* Survival: work is recorded, time passes, hearts beat, and backups are
\* made and restored.
NextSurvive ==
    \/ ClockTick
    \/ \E v \in SurvivalWork : SurvivalRecordWork(SurvivalCapability, v)
    \/ \E t \in BackupTypes : CreateBackup(t)
    \/ GetBackupStatus
    \/ Heartbeat
    \/ SurvivalRestore(NoCid)

\* The survival system constructed with or without a private key.
InitSurvive ==
    /\ now = 0
    /\ GuardInit
    /\ NetInit
    /\ SoulInit
    /\ RepInit
    /\ BackupInit
    /\ MsgInit
    /\ ConcInit
    /\ InstInit
    /\ ScaleInit
    /\ LogInit
    /\ SysInit
    /\ OrderInit
    /\ \E account \in BOOLEAN : Constructed(account)

SpecSurvive == InitSurvive /\ [][NextSurvive]_vars

\* Restoring: this soul works, is backed up and restored while other souls
\* are backed up to the shared cache and the disk is healed.
NextRestore ==
    \/ \E v \in RestoreWork : SurvivalRecordWork(SurvivalCapability, v)
    \/ \E t \in BackupTypes :
          Len(backup_history) < MaxBackups /\ CreateBackup(t)
    \/ SurvivalRestore(NoCid)
    \/ OtherCreateBackup
    \/ HealDisk

SpecRestore == Init /\ [][NextRestore]_vars

\* Survival with a backup store that is down at some heartbeats.
NextOutage ==
    \/ ClockTick
    \/ \E v \in SurvivalWork : SurvivalRecordWork(SurvivalCapability, v)
    \/ Heartbeat
    \/ HeartbeatStoreDown

SpecOutage == InitSurvive /\ [][NextOutage]_vars

\* Backups of a soul that is minted by a CRITICAL heartbeat, with on-chain
\* records that succeed or fail.
NextAnchor ==
    \/ ClockTick
    \/ \E v \in SurvivalWork : SurvivalRecordWork(SurvivalCapability, v)
    \/ Heartbeat
    \/ \E t \in BackupTypes, anchored \in BOOLEAN :
          CreateBackupAnchoring(t, anchored)

SpecAnchor == InitSurvive /\ [][NextAnchor]_vars

(***************************************************************************)
(* AutoScalingManager (auto_scaling.py): the recommendation of             *)
(* should_spawn for every balance and every number of children.            *)
(***************************************************************************)

\* the balances asked about, in units of 0.0005 ETH: every multiple of
\* AdviceStep up to MaxAdvice steps, and the last balance below each threshold
MaxAdvice == 88
AdviceStep == CHILD_FUNDING \div 4
AdviceBalances ==
    { k * AdviceStep : k \in 0..MaxAdvice }
      \cup { SPAWN_THRESHOLD - 1, SPAWN_RECOMMENDED - 1, SPAWN_AGGRESSIVE - 1 }
\* numbers of children found in children.json
LoadedChildCounts == {0, 1, MAX_CHILDREN - 2, MAX_CHILDREN - 1, MAX_CHILDREN}

\* _load_children: n children written by earlier runs
LoadedChildren(n) ==
    [k \in 1..n |-> [child_id |-> <<k, 0>>, inherited_capabilities |-> {},
                     initial_funding |-> CHILD_FUNDING, birth_time |-> 0,
                     status |-> "alive", earnings |-> 0]]

\* should_spawn called with a balance
ShouldSpawn(balance) ==
    LET recommendation == should_spawn(children, balance)
    IN  /\ scale_result' = [op |-> "should_spawn", funding |-> CHILD_FUNDING,
                            before |-> balance, had |-> Len(children),
                            ok |-> recommendation.should_spawn,
                            count |-> recommendation.count]
        /\ UNCHANGED children
        /\ UNCHANGED <<now, guardVars, netVars, soulVars, repVars, backupVars,
                       msgVars, concVars, instVars, logVars, orderVars,
                       survVars,
                       sysVars>>

\* The manager as loaded from children.json.
InitAdvice ==
    /\ now = 0
    /\ GuardInit
    /\ NetInit
    /\ SoulInit
    /\ RepInit
    /\ BackupInit
    /\ MsgInit
    /\ ConcInit
    /\ InstInit
    /\ \E n \in LoadedChildCounts : children = LoadedChildren(n)
    /\ scale_result = NoScaleResult
    /\ OrderInit
    /\ SurvInit
    /\ LogInit
    /\ SysInit

NextAdvice == \E b \in AdviceBalances : ShouldSpawn(b)

SpecAdvice == InitAdvice /\ [][NextAdvice]_vars

(***************************************************************************)
(* AutoScalingManager (auto_scaling.py): the status of the children, with  *)
(* provision_child called for any id.                                      *)
(***************************************************************************)

\* the status of a child found in children.json (ChildAgent.status)
ChildStatuses == {"gestating", "alive", "dead"}
\* an id no child has
UnknownChild == <<0, 0>>

\* _load_children: one child written by an earlier run, with its status
LoadedChild(status) == [LoadedChildren(1)[1] EXCEPT !.status = status]

child_ids(kids) == { kids[k].child_id : k \in DOMAIN kids }

\* provision_child called with any id; ok is the value returned
ProvisionChildCall(child_id) ==
    /\ children' = provision_child(children, child_id)
    /\ scale_result' = [NoScaleResult EXCEPT !.op = "provision_child",
                           !.before = soul.current_balance,
                           !.had = Len(children),
                           !.ok = child_id \in child_ids(children)]
    /\ UNCHANGED <<now, guardVars, netVars, soulVars, repVars, backupVars,
                   msgVars, concVars, instVars, logVars, orderVars,
                   survVars,
                       sysVars>>

\* The parent's soul with some balance, and the manager with no child or
\* with the child of children.json.
InitLifecycle ==
    /\ now = 0
    /\ GuardInit
    /\ NetInit
    /\ \E b \in ParentBalances :
          soul = [current_balance |-> b, total_lifetime_earnings |-> b,
                  capabilities |->
                      [c \in CapabilityNames |-> [earnings |-> 0, uses |-> 0]]]
    /\ tier_result = [op |-> "init", value |-> 0, tier |-> "none"]
    /\ RepInit
    /\ BackupInit
    /\ MsgInit
    /\ ConcInit
    /\ InstInit
    /\ \/ children = <<>>
       \/ \E status \in ChildStatuses : children = <<LoadedChild(status)>>
    /\ scale_result = NoScaleResult
    /\ OrderInit
    /\ SurvInit
    /\ LogInit
    /\ SysInit

NextLifecycle ==
    \/ \E f \in FundingChoices : SpawnChild(f)
    \/ \E id \in child_ids(children) \cup {UnknownChild} :
          ProvisionChildCall(id)

SpecLifecycle == InitLifecycle /\ [][NextLifecycle]_vars

(***************************************************************************)
(* UltimateAgentSystem (ultimate_system.py): run_continuous, the stages of *)
(* run_cycle and the interrupt that ends the loop, and the work call of    *)
(* ImmortalAgent (immortal_agent.py), which is built from the same three   *)
(* objects.  system.pc is the position between two statements:             *)
(*   "loop"           at the test of the while loop or in time.sleep       *)
(*   "health_checked" after stage 1                                        *)
(*   "heartbeat_done" in stage 2, between heartbeat and update_agent_status*)
(*   "status_updated" after stage 2                                        *)
(*   "coordinated"    after stage 3                                        *)
(*   "spawning"       in auto_scale, before a call of spawn_child          *)
(*   "child_recorded" in spawn_child, between _save_children and the debit *)
(*   "child_spawned"  in auto_scale, between spawn_child and               *)
(*                    provision_child                                      *)
(*   "scaled"         after stage 4                                        *)
(*   "stopped"        after stop()                                         *)
(***************************************************************************)

MaxCycles == 2

\* the agent of the system (soul_id "agent") and a peer in need
SystemAgent == "agent"
SystemPeers == { Profile("a1", "CRITICAL", 1, 50, TRUE, FALSE, TRUE) }
\* balances of the soul file the system starts from:
\* CRITICAL, NORMAL and THRIVING
SystemBalances == {0, NORMAL, THRIVING}
\* the value of a piece of work: WORK_VALUES["bug_fix"], 0.002 ETH
SystemWork == {4}

\* the positions of run_cycle that lie between two of its stages
StageBoundaries ==
    {"loop", "health_checked", "status_updated", "coordinated", "scaled"}

\* _register_with_network of UltimateAgentSystem
system_profile(current_soul) ==
    Profile(current_soul.id, survival_tier(current_soul),
            current_soul.current_balance, 50, TRUE, TRUE, FALSE)

\* needy[:2]: the first two of the agents in need, in the order of the
\* registry
first_needy(order, needy) ==
    LET all == SelectSeq(order, LAMBDA h : h \in needy)
    IN  SubSeq(all, 1, Min(2, Len(all)))

\* the offers of stage 3, one after the other
RECURSIVE offer_each(_, _, _)
offer_each(net, agent_id, targets) ==
    IF targets = <<>> THEN net
    ELSE offer_each(offer_help(net, agent_id, Head(targets)), agent_id,
                    Tail(targets))

\* the object `after` has taken the place of the survival object
SystemSurvived(after) ==
    /\ survivor' = [soul |-> after.soul, state |-> after.state,
                    onchain |-> after.onchain]
    /\ backup_history' = after.history
    /\ ipfs_cache' = after.cache

\* run_continuous: self.running = True
RunContinuous ==
    /\ system.pc = "constructed"
    /\ system' = [system EXCEPT !.running = TRUE, !.pc = "loop"]
    /\ UNCHANGED <<now, guardVars, netVars, soulVars, repVars, backupVars,
                   msgVars, concVars, instVars, scaleVars, logVars,
                   orderVars, survVars>>

\* run_cycle, stage 1: the health check finds no issue
CycleHealthCheck ==
    /\ system.running
    /\ system.pc = "loop"
    /\ system.cycles < MaxCycles
    /\ system' = [system EXCEPT !.pc = "health_checked", !.cycles = @ + 1,
                                !.last = "none"]
    /\ UNCHANGED <<now, guardVars, netVars, soulVars, repVars, backupVars,
                   msgVars, concVars, instVars, scaleVars, logVars,
                   orderVars, survVars>>

\* run_cycle, stage 2: self.survival.heartbeat()
CycleHeartbeat ==
    LET s == Survival(survivor, backup_history, ipfs_cache)
    IN  /\ system.pc = "health_checked"
        /\ SystemSurvived(heartbeat(s, clock))
        /\ system' = [system EXCEPT !.pc = "heartbeat_done",
                         !.tier = survival_tier(s.soul),
                         !.balance = s.soul.current_balance]
        /\ UNCHANGED <<clock, surv_result, backup_result>>
        /\ UNCHANGED <<now, guardVars, netVars, soulVars, repVars, msgVars,
                       concVars, instVars, scaleVars, logVars, orderVars>>

\* run_cycle, stage 2: update_agent_status(tier, balance)
CycleUpdateStatus ==
    /\ system.pc = "heartbeat_done"
    /\ agents' = [agents EXCEPT ![SystemAgent] =
                     updated_profile(@, [tier |-> system.tier,
                                         balance |-> system.balance])]
    /\ system' = [system EXCEPT !.pc = "status_updated"]
    /\ UNCHANGED <<pools, contributions, net_result>>
    /\ UNCHANGED <<now, guardVars, soulVars, repVars, backupVars, msgVars,
                   concVars, instVars, scaleVars, logVars, orderVars,
                   survVars>>

\* run_cycle, stage 3: request_help if CRITICAL, offer_help to the first
\* two agents in need if THRIVING
CycleCoordinate ==
    LET asking == [agents EXCEPT ![SystemAgent] =
                      updated_profile(@, [seeking_help |-> TRUE])]
        offered == offer_each(Network(agents, messages, 0), SystemAgent,
                              first_needy(registered,
                                          find_agents_needing_help))
    IN  /\ system.pc = "status_updated"
        /\ CASE system.tier = "CRITICAL" ->
                    /\ agents' = asking
                    /\ messages' = sent(messages,
                                        help_request(SystemAgent, "funding",
                                                     asking))
             [] system.tier = "THRIVING" ->
                    /\ agents' = offered.agents
                    /\ messages' = offered.messages
             [] OTHER -> UNCHANGED <<agents, messages>>
        /\ system' = [system EXCEPT !.pc = "coordinated"]
        /\ UNCHANGED <<pools, contributions, net_result, aid_result>>
        /\ UNCHANGED <<now, guardVars, soulVars, repVars, backupVars,
                       concVars, instVars, scaleVars, logVars, orderVars,
                       survVars>>

\* run_cycle, stage 4: should_spawn on the balance of the heartbeat, and
\* in auto_scale on the balance of the soul
CycleScale ==
    LET asked == should_spawn(children, system.balance)
        recommendation == should_spawn(children,
                                       survivor.soul.current_balance)
        count == IF /\ system.tier = "THRIVING"
                    /\ asked.should_spawn
                    /\ recommendation.should_spawn
                 THEN recommendation.count ELSE 0
    IN  /\ system.pc = "coordinated"
        /\ system' = [system EXCEPT
                         !.todo = count,
                         !.pc = IF count > 0 THEN "spawning" ELSE "scaled"]
        /\ UNCHANGED <<now, guardVars, netVars, soulVars, repVars,
                       backupVars, msgVars, concVars, instVars, scaleVars,
                       logVars, orderVars, survVars>>

\* spawn_child up to self._save_children(): the reserve is checked and the
\* child is recorded
SpawnRecord ==
    LET after == spawn_child(Lineage(survivor.soul, children, None),
                             <<CHILD_FUNDING>>)
    IN  /\ system.pc = "spawning"
        /\ children' = after.children
        /\ system' =
              IF after.child # None
              THEN [system EXCEPT !.pc = "child_recorded"]
              ELSE [system EXCEPT
                       !.todo = @ - 1,
                       !.pc = IF system.todo = 1 THEN "scaled" ELSE @]
        /\ UNCHANGED scale_result
        /\ UNCHANGED <<now, guardVars, netVars, soulVars, repVars,
                       backupVars, msgVars, concVars, instVars, logVars,
                       orderVars, survVars>>

\* spawn_child: parent_soul['current_balance'] -= funding
SpawnDebit ==
    /\ system.pc = "child_recorded"
    /\ survivor' = [survivor EXCEPT
                       !.soul.current_balance = @ - CHILD_FUNDING]
    /\ system' = [system EXCEPT !.pc = "child_spawned"]
    /\ UNCHANGED <<clock, surv_result>>
    /\ UNCHANGED <<now, guardVars, netVars, soulVars, repVars, backupVars,
                   msgVars, concVars, instVars, scaleVars, logVars,
                   orderVars>>

\* auto_scale: provision_child(child.child_id)
SpawnProvision ==
    /\ system.pc = "child_spawned"
    /\ children' = provision_child(children,
                                   children[Len(children)].child_id)
    /\ system' = [system EXCEPT
                     !.todo = @ - 1,
                     !.pc = IF system.todo = 1 THEN "scaled" ELSE "spawning"]
    /\ UNCHANGED scale_result
    /\ UNCHANGED <<now, guardVars, netVars, soulVars, repVars, backupVars,
                   msgVars, concVars, instVars, logVars, orderVars,
                   survVars>>

\* run_cycle, stage 5: an emergency backup if nothing can be restored; the
\* cycle returns and the loop sleeps
CycleBackupCheck ==
    LET s == Survival(survivor, backup_history, ipfs_cache)
    IN  /\ system.pc = "scaled"
        /\ SystemSurvived(IF restorable(s) THEN s
                          ELSE create_backup(s, "emergency", clock))
        /\ system' = [system EXCEPT !.pc = "loop", !.last = "run_cycle"]
        /\ UNCHANGED <<clock, surv_result, backup_result>>
        /\ UNCHANGED <<now, guardVars, netVars, soulVars, repVars, msgVars,
                       concVars, instVars, scaleVars, logVars, orderVars>>

\* KeyboardInterrupt raised in the main thread, wherever the loop is, and
\* stop(): the shutdown backup and is_active = False
Interrupt ==
    LET s == Survival(survivor, backup_history, ipfs_cache)
    IN  /\ system.running
        /\ SystemSurvived(create_backup(s, "shutdown", clock))
        /\ agents' = [agents EXCEPT ![SystemAgent] =
                         updated_profile(@, [is_active |-> FALSE])]
        /\ system' = [system EXCEPT !.running = FALSE, !.pc = "stopped",
                                    !.halted_at = system.pc]
        /\ UNCHANGED <<pools, contributions, net_result>>
        /\ UNCHANGED <<clock, surv_result, backup_result>>
        /\ UNCHANGED <<now, guardVars, soulVars, repVars, msgVars,
                       concVars, instVars, scaleVars, logVars, orderVars>>

\* ImmortalAgent.work: record_work, update_agent_status, and auto_scale if
\* the tier is THRIVING
Work(capability, value) ==
    LET s == Survival(survivor, backup_history, ipfs_cache)
        worked == [s EXCEPT
                      !.soul.total_lifetime_earnings = @ + value,
                      !.soul.current_balance = @ + value,
                      !.soul.capabilities =
                          IF capability \in DOMAIN @
                          THEN [@ EXCEPT ![capability] =
                                   [earnings |-> @.earnings + value,
                                    uses |-> @.uses + 1]]
                          ELSE @]
        checked == check_auto_backup(worked, clock)
        tier == survival_tier(checked.soul)
        recommendation == should_spawn(children, checked.soul.current_balance)
        scaled == IF tier = "THRIVING" /\ recommendation.should_spawn
                  THEN spawn_loop(recommendation.count,
                                  Lineage(checked.soul, children, None))
                  ELSE Lineage(checked.soul, children, None)
    IN  /\ system.pc = "constructed"
        /\ survivor.soul.capabilities[capability].uses < MaxWork
        /\ SystemSurvived([checked EXCEPT !.soul = scaled.soul])
        /\ agents' = [agents EXCEPT ![SystemAgent] =
                         updated_profile(@,
                             [tier |-> tier,
                              balance |-> checked.soul.current_balance,
                              seeking_help |-> tier = "CRITICAL"])]
        /\ children' = scaled.children
        /\ system' = [system EXCEPT !.last = "work"]
        /\ UNCHANGED <<pools, contributions, net_result, scale_result>>
        /\ UNCHANGED <<clock, surv_result, backup_result>>
        /\ UNCHANGED <<now, guardVars, soulVars, repVars, msgVars,
                       concVars, instVars, logVars, orderVars>>

\* The system constructed on the soul file of an earlier run and registered
\* in a network that has a peer in need.
InitSystem ==
    /\ now = 0
    /\ GuardInit
    /\ SoulInit
    /\ RepInit
    /\ BackupInit
    /\ MsgInit
    /\ ConcInit
    /\ InstInit
    /\ ScaleInit
    /\ LogInit
    /\ SysInit
    /\ clock = BACKUP_INTERVAL
    /\ surv_result = NoSurvResult
    /\ \E b \in SystemBalances :
          /\ survivor =
                [soul |-> [NewSoul EXCEPT !.current_balance = b,
                                          !.total_lifetime_earnings = b],
                 state |-> NewState, onchain |-> NewAdapter(FALSE)]
          /\ agents =
                [id \in {SystemAgent} \cup { p.agent_id : p \in SystemPeers }
                   |-> IF id = SystemAgent
                       THEN system_profile([NewSoul EXCEPT
                                               !.current_balance = b])
                       ELSE CHOOSE p \in SystemPeers : p.agent_id = id]
    /\ registered = <<"a1", SystemAgent>>
    /\ pools = <<>>
    /\ contributions = 0
    /\ net_result = NoNetResult

NextSystem ==
    \/ RunContinuous
    \/ CycleHealthCheck
    \/ CycleHeartbeat
    \/ CycleUpdateStatus
    \/ CycleCoordinate
    \/ CycleScale
    \/ SpawnRecord
    \/ SpawnDebit
    \/ SpawnProvision
    \/ CycleBackupCheck
    \/ Interrupt
    \/ \E v \in SystemWork : Work(SurvivalCapability, v)

SpecSystem == InitSystem /\ [][NextSystem]_vars

(***************************************************************************)
(* AgentCoordinationNetwork (agent_coordination.py): the reputation of     *)
(* registered agents under the calls that follow registration.             *)
(***************************************************************************)

\* reputations at registration: one below the cap, at the cap and above it
StandingReputations == {MAX_REPUTATION - 1, MAX_REPUTATION,
                        MAX_REPUTATION + 50}

\* the agent help is offered to and asked by, the help asked for, and the
\* pool loans are asked from
StandingTargets == {"a1"}
StandingHelp == {"funding"}
StandingPools == {"p1"}
StandingLoans == {1}

\* An agent in need and a helper registered with some reputation, and a
\* pool created by the helper.
InitStanding ==
    /\ now = 0
    /\ GuardInit
    /\ SoulInit
    /\ \E r1, r2 \in StandingReputations :
          agents = ("a1" :> Profile("a1", "CRITICAL", 1, r1, TRUE, FALSE, TRUE))
                   @@ ("a2" :> Profile("a2", "THRIVING", 2000, r2, TRUE, TRUE,
                                       FALSE))
    /\ pools = ("p1" :> [name |-> "fund", total_balance |-> 2,
                         contributors |-> ("a2" :> 2), loans |-> <<>>,
                         created_at |-> 0])
    /\ contributions = 0
    /\ net_result = NoNetResult
    /\ RepInit
    /\ BackupInit
    /\ MsgInit
    /\ ConcInit
    /\ InstInit
    /\ ScaleInit
    /\ LogInit
    /\ SysInit
    /\ registered = <<"a1", "a2">>
    /\ SurvInit

\* The five calls, by and for either agent.
NextStanding ==
    \/ \E p \in StandingPools, a \in AgentIds, x \in ContributionAmounts :
          ContributeToPool(p, a, x)
    \/ \E a \in AgentIds, b \in StandingTargets :
          Len(messages) < MaxMessages /\ OfferHelp(a, b)
    \/ \E a \in StandingTargets, h \in StandingHelp :
          Len(messages) < MaxMessages /\ RequestHelp(a, h)
    \/ \E p \in StandingPools, a \in AgentIds, x \in StandingLoans,
          u \in LoanPurposes : RequestLoan(p, a, x, u)
    \/ RunMutualAidRound(registered)

SpecStanding == InitStanding /\ [][NextStanding]_vars

(***************************************************************************)
(* AutoScalingManager (auto_scaling.py): the number of children under      *)
(* auto_scale, spawn_child and the spawn_child of ImmortalAgent.           *)
(***************************************************************************)

\* funding of the direct calls: the default
BroodFunding == {None}

\* ImmortalAgent.spawn_child: spawn_child with the default funding, and
\* provision_child for the child it returned
ManualSpawn ==
    LET after == spawn_child(lineage, None)
    IN  /\ soul' = after.soul
        /\ children' = IF after.child = None THEN after.children
                       ELSE provision_child(after.children,
                                            after.child[1].child_id)
        /\ scale_result' = [op |-> "manual_spawn",
                            funding |-> funding_used(None),
                            before |-> soul.current_balance,
                            had |-> Len(children),
                            ok |-> after.child # None,
                            count |-> Len(after.children) - Len(children)]
        /\ UNCHANGED tier_result
        /\ UNCHANGED <<now, guardVars, netVars, repVars, backupVars, msgVars,
                       concVars, instVars, logVars, orderVars, survVars,
                       sysVars>>

\* auto_scale and direct calls of spawn_child, up to MaxChildren children
\* beyond max_children
NextBrood ==
    \/ AutoScale
    \/ \E f \in BroodFunding :
          Len(children) < MAX_CHILDREN + MaxChildren /\ SpawnChildCall(f)
    \/ Len(children) < MAX_CHILDREN + MaxChildren /\ ManualSpawn

SpecBrood == InitScale /\ [][NextBrood]_vars

(***************************************************************************)
(* Claims on SpendingGuardrails, checked under Spec.                       *)
(***************************************************************************)

\* C1: within one daily window (no reset during the call) a spend() whose
\* amount would take daily_total over daily_limit returns success=False and
\* records nothing, micro-payments included, so spend() never takes
\* daily_total from within the limit to above it.
C1_DailyCapEnforced ==
    [][\A a \in Amounts, r \in Recipients, p \in Purposes, m \in BOOLEAN :
          (SpendCall(a, r, p, m) /\ ~reset_due) =>
              /\ (daily_total + a > daily_limit =>
                     /\ result'.success = FALSE
                     /\ UNCHANGED <<transactions, daily_total, weekly_total>>)
              /\ (daily_total <= daily_limit => daily_total' <= daily_limit)
      ]_vars

\* C2: while the emergency stop is active every spend() returns
\* success=False and leaves transactions, daily_total and weekly_total
\* unchanged, whatever the amount.
C2_EmergencyStopBlocksSpend ==
    [][\A a \in Amounts, r \in Recipients, p \in Purposes, m \in BOOLEAN :
          (SpendCall(a, r, p, m) /\ emergency_stop /\ ~reset_due) =>
              /\ result'.success = FALSE
              /\ UNCHANGED <<transactions, daily_total, weekly_total>>
      ]_vars

\* C3: while emergency_stop is set, can_spend returns allowed=False and
\* requires_approval=True for every amount and recipient, whatever
\* daily_total and the blocklist are.
C3_EmergencyStopDeniesCanSpend ==
    (result.op = "can_spend" /\ emergency_stop) =>
        /\ result.allowed = FALSE
        /\ result.requires_approval = TRUE

\* C3 witness: can_spend has answered while the emergency stop was set.
C3_Witness ==
    /\ result.op = "can_spend"
    /\ emergency_stop
    /\ result.amount < MICRO_PAYMENT_MAX
    /\ result.recipient = "alice"
    /\ daily_total + result.amount <= daily_limit
    /\ ~result.allowed
    /\ result.requires_approval

\* C4 as stated: every amount below MICRO_PAYMENT_MAX is allowed without
\* approval for every recipient unless the daily cap would be exceeded or
\* the emergency stop is set.
C4_MicroAllowedEveryRecipient ==
    [][\A a \in Amounts, r \in OptRecipients :
          (/\ CanSpend(a, r)
           /\ a < MICRO_PAYMENT_MAX
           /\ ~emergency_stop
           /\ ~(daily_after_reset + a > daily_limit)) =>
              /\ result'.allowed = TRUE
              /\ result'.requires_approval = FALSE
      ]_vars

\* C4 amended: every amount below MICRO_PAYMENT_MAX is allowed without
\* approval unless the daily cap would be exceeded, the emergency stop is
\* set, or the recipient is in blocked_recipients.  (can_spend leaves
\* daily_total at the value its decision used.)
C4_MicroAllowedUnlessBlocked ==
    (/\ result.op = "can_spend"
     /\ result.amount < MICRO_PAYMENT_MAX
     /\ ~emergency_stop
     /\ ~(daily_total + result.amount > daily_limit)
     /\ ~(result.recipient # NoRecipient
          /\ result.recipient \in blocked_recipients)) =>
        /\ result.allowed = TRUE
        /\ result.requires_approval = FALSE

\* C4 witness: a micro-payment was auto-approved with spending on record
\* that reaches the daily limit exactly.
C4_Witness ==
    /\ result.op = "can_spend"
    /\ result.amount < MICRO_PAYMENT_MAX
    /\ result.recipient = "alice"
    /\ result.allowed
    /\ ~result.requires_approval
    /\ daily_total > 0
    /\ daily_total + result.amount = daily_limit

(***************************************************************************)
(* Claims on the resource pools, checked under SpecPool.                   *)
(***************************************************************************)

\* C5: in every reachable state every pool's total_balance is >= 0.
C5_PoolBalanceNonNegative ==
    \A p \in DOMAIN pools : pools[p].total_balance >= 0

\* C6: a request_loan by a registered agent whose reputation is below
\* MIN_LOAN_REPUTATION returns no loan, whatever the pool's balance and the
\* amount, and leaves every pool (balance, loans, contributors) unchanged.
C6_LowReputationDenied ==
    [][\A p \in PoolIds, a \in AgentIds, x \in LoanAmounts,
         u \in LoanPurposes :
          (/\ RequestLoan(p, a, x, u)
           /\ a \in DOMAIN agents
           /\ agents[a].reputation < MIN_LOAN_REPUTATION) =>
              /\ net_result'.ok = FALSE
              /\ pools' = pools
      ]_vars

\* C6 witness: a loan was refused for low reputation although every pool
\* held at least the largest amount that can be asked.
C6_Witness ==
    /\ net_result.op = "request_loan"
    /\ net_result.reason = "reputation too low"
    /\ ~net_result.ok
    /\ DOMAIN pools = PoolIds
    /\ \A p \in DOMAIN pools : pools[p].total_balance >= 2

Solvent(p, x) == p \in DOMAIN pools /\ x <= pools[p].total_balance

PassesGate(a) ==
    a \in DOMAIN agents => agents[a].reputation >= MIN_LOAN_REPUTATION

\* C7 as stated: a loan is granted only if amount <= total_balance; a
\* request with amount > total_balance or on an unknown pool returns no loan
\* and leaves every pool unchanged; amount == total_balance is granted.
C7_SolvencyGate ==
    [][\A p \in PoolIds, a \in AgentIds, x \in LoanAmounts,
         u \in LoanPurposes :
          RequestLoan(p, a, x, u) =>
              /\ net_result'.ok => Solvent(p, x)
              /\ ~Solvent(p, x) => (~net_result'.ok /\ pools' = pools)
              /\ (p \in DOMAIN pools /\ x = pools[p].total_balance) =>
                     net_result'.ok
      ]_vars

\* C7 amended: as C7, but amount == total_balance is granted when the
\* requester passes the reputation gate (it is not registered, or its
\* reputation is at least MIN_LOAN_REPUTATION).
C7_SolvencyGateAfterReputation ==
    [][\A p \in PoolIds, a \in AgentIds, x \in LoanAmounts,
         u \in LoanPurposes :
          RequestLoan(p, a, x, u) =>
              /\ net_result'.ok => Solvent(p, x)
              /\ ~Solvent(p, x) => (~net_result'.ok /\ pools' = pools)
              /\ (/\ p \in DOMAIN pools
                  /\ x = pools[p].total_balance
                  /\ PassesGate(a)) => net_result'.ok
      ]_vars

\* C7 witness: a loan of the pool's whole balance was granted.
C7_Witness ==
    /\ net_result.op = "request_loan"
    /\ net_result.ok
    /\ \E p \in DOMAIN pools :
          /\ pools[p].total_balance = 0
          /\ Len(pools[p].loans) = 1
          /\ pools[p].loans[1].amount = 2
          /\ pools[p].contributors = ("a2" :> 2)

\* C8: a granted request_loan takes exactly amount off the pool's
\* total_balance and appends exactly one loan record with that agent_id,
\* amount and purpose and repaid=False; contributors and all other pools
\* are unchanged.  A request by a registered agent of reputation >= 20 for
\* an amount <= total_balance is granted.
C8_GrantedLoanEffect ==
    [][\A p \in PoolIds, a \in AgentIds, x \in LoanAmounts,
         u \in LoanPurposes :
          RequestLoan(p, a, x, u) =>
              /\ (/\ Solvent(p, x)
                  /\ a \in DOMAIN agents
                  /\ agents[a].reputation >= MIN_LOAN_REPUTATION) =>
                     net_result'.ok
              /\ net_result'.ok =>
                     /\ DOMAIN pools' = DOMAIN pools
                     /\ pools'[p].total_balance = pools[p].total_balance - x
                     /\ Len(pools'[p].loans) = Len(pools[p].loans) + 1
                     /\ SubSeq(pools'[p].loans, 1, Len(pools[p].loans)) =
                            pools[p].loans
                     /\ LET loan == pools'[p].loans[Len(pools'[p].loans)]
                        IN  /\ loan.agent_id = a
                            /\ loan.amount = x
                            /\ loan.purpose = u
                            /\ loan.repaid = FALSE
                     /\ pools'[p].contributors = pools[p].contributors
                     /\ \A q \in DOMAIN pools \ {p} : pools'[q] = pools[q]
      ]_vars

\* C8 witness: a second loan was granted, to a registered agent of
\* reputation >= 20, while another pool exists.
C8_Witness ==
    /\ net_result.op = "request_loan"
    /\ net_result.ok
    /\ DOMAIN pools = PoolIds
    /\ \E p \in DOMAIN pools :
          /\ Len(pools[p].loans) = 2
          /\ pools[p].loans[2].agent_id \in DOMAIN agents
          /\ agents[pools[p].loans[2].agent_id].reputation >=
                 MIN_LOAN_REPUTATION

(***************************************************************************)
(* Claims on the tiers, checked under SpecTier and SpecRegistry.           *)
(***************************************************************************)

\* The classification the specification states: thresholds 0.001 / 0.01 /
\* 0.1 ETH as inclusive lower bounds of LOW, NORMAL and THRIVING.
TierClassifier(balance) ==
    CASE balance < CRITICAL -> "CRITICAL"
      [] balance >= CRITICAL /\ balance < LOW -> "LOW"
      [] balance >= LOW /\ balance < NORMAL -> "NORMAL"
      [] balance >= NORMAL -> "THRIVING"

\* C9: get_tier is total and returns the classification of the current
\* balance, thresholds being inclusive lower bounds, after any sequence of
\* record_work calls (no hysteresis).
C9_TierIsClassificationOfBalance ==
    tier_result.op = "get_tier" =>
        /\ tier_result.tier \in Tiers
        /\ tier_result.tier = TierClassifier(soul.current_balance)
        /\ (soul.current_balance = CRITICAL => tier_result.tier = "LOW")
        /\ (soul.current_balance = LOW => tier_result.tier = "NORMAL")
        /\ (soul.current_balance = NORMAL => tier_result.tier = "THRIVING")

\* C9 witness: after work was recorded the balance sits exactly on the
\* 0.01 threshold and the tier read is NORMAL.
C9_Witness ==
    /\ tier_result.op = "get_tier"
    /\ soul.current_balance = LOW
    /\ soul.capabilities["code_generation"].uses > 0
    /\ tier_result.tier = "NORMAL"

\* C10: every AgentProfile held by the registry satisfies
\* tier == classify(balance).
C10_RegistryTierMatchesBalance ==
    \A a \in DOMAIN agents :
        agents[a].tier = TierClassifier(agents[a].balance)

(***************************************************************************)
(* Claims on the reputation engine, checked under SpecRep.                 *)
(***************************************************************************)

\* a ReputationScore without its timestamp: the overall and component
\* scores and the rating counters
Scores(rep) == [f \in DOMAIN rep \ {"last_updated"} |-> rep[f]]

\* C11: calculate_reputation is idempotent: a second call for the same
\* agent with unchanged PerformanceMetrics yields the same overall and
\* component scores as the first and leaves the metrics unchanged.
C11_CalculateIdempotent ==
    [][\A a \in RepAgents :
          (CalculateReputation(a) /\ repeats(a)) =>
              /\ Scores(reputations'[a]) = Scores(reputations[a])
              /\ performance' = performance
      ]_vars

\* C11 witness: a score was calculated a second time, later than the
\* first, for an agent with recorded tasks.
C11_Witness ==
    /\ rep_result.op = "calculate_reputation"
    /\ rep_result.repeated
    /\ rep_result.agent_id \in DOMAIN performance
    /\ performance[rep_result.agent_id].tasks_completed > 0
    /\ reputations[rep_result.agent_id].last_updated > 0

\* C12: for every PerformanceMetrics state reachable through the recording
\* calls and update_performance, the overall_score lies in [0, 100].
C12_OverallScoreInRange ==
    \A a \in DOMAIN reputations :
        /\ reputations[a].overall_score >= 0
        /\ reputations[a].overall_score <= SCORE_CAP

\* C18: reputation is never stale: after each recording call or
\* update_performance returns, the stored ReputationScore of that agent is
\* the one calculate_reputation gives for the agent's current metrics.
C18_ReputationNeverStale ==
    \A a \in DOMAIN performance :
        /\ a \in DOMAIN reputations
        /\ Scores(reputations[a]) =
               Scores(calculate_reputation(performance, a))

\* C18 witness: a sale was recorded after a completed task, and the stored
\* score shows both.
C18_Witness ==
    /\ rep_result.op = "record_trade"
    /\ rep_result.agent_id \in DOMAIN reputations
    /\ reputations[rep_result.agent_id].total_transactions = 1
    /\ performance[rep_result.agent_id].tasks_completed = 1
    /\ reputations[rep_result.agent_id].quality = SCORE_CAP

(***************************************************************************)
(* Claims on backups, checked under SpecBackup.                            *)
(***************************************************************************)

\* C13: for every handle (cid) returned by create_backup, a later
\* restore_from_backup(handle) succeeds and returns content whose hash is the
\* hash stored in the BackupRecord appended with that handle.
C13_RestoreRoundTrip ==
    backup_result.op = "restore_from_backup" =>
        \A i \in DOMAIN backup_history :
            backup_history[i].cid = backup_result.cid =>
                /\ backup_result.ok
                /\ soul_hash(backup_result.data) = backup_history[i].hash

(***************************************************************************)
(* Claims on mutual aid, checked under SpecAid.                            *)
(***************************************************************************)

\* the registry the last round started from
Before == aid_result.before

\* the agents in need when the last round started
NeedyBefore ==
    { n \in DOMAIN Before :
        /\ Before[n].tier = "CRITICAL"
        /\ Before[n].seeking_help
        /\ Before[n].is_active }

\* the helpers the last round could choose from
EligibleBefore ==
    { h \in DOMAIN Before :
        /\ Before[h].offers_help
        /\ Before[h].tier \in {"NORMAL", "THRIVING"}
        /\ Before[h].balance > MIN_HELPER_BALANCE }

\* the messages the last round appended to the log
NewMessages == SubSeq(messages, aid_result.logged + 1, Len(messages))

\* C14: run_mutual_aid_round sends, for every active CRITICAL agent with
\* seeking_help=True, exactly one offer message whose sender is the eligible
\* helper with the highest reputation, and returns the number of offers
\* sent; one helper may serve several needy agents in a round; with no
\* eligible helper the round returns 0 and sends nothing.
C14_MutualAidRound ==
    aid_result.op = "run_mutual_aid_round" =>
        /\ aid_result.matches = Len(NewMessages)
        /\ EligibleBefore = {} => NewMessages = <<>>
        /\ EligibleBefore # {} =>
              \A n \in NeedyBefore :
                  \E i \in DOMAIN NewMessages :
                      /\ NewMessages[i].recipient = n
                      /\ \A j \in DOMAIN NewMessages :
                            NewMessages[j].recipient = n => j = i
        /\ \A i \in DOMAIN NewMessages :
              /\ NewMessages[i].msg_type = "offer"
              /\ NewMessages[i].recipient \in NeedyBefore
              /\ NewMessages[i].sender \in EligibleBefore
              /\ \A h \in EligibleBefore :
                    Before[h].reputation <=
                        Before[NewMessages[i].sender].reputation

\* C14 witness: a round matched two needy agents with the same helper, the
\* one of reputation 70, while a helper of reputation 40 was eligible too.
C14_Witness ==
    /\ aid_result.op = "run_mutual_aid_round"
    /\ aid_result.matches = 2
    /\ Len(messages) = 2
    /\ messages[1].sender = "h2"
    /\ messages[2].sender = "h2"
    /\ messages[1].recipient # messages[2].recipient
    /\ {"h1", "h2"} \subseteq EligibleBefore
    /\ Before["h1"].reputation = 40
    /\ Before["h2"].reputation = 70
    /\ agents["h2"].reputation = 72

(***************************************************************************)
(* Claims on concurrent pool calls, checked under SpecConc.                *)
(***************************************************************************)

RECURSIVE SumAmounts(_)
SumAmounts(loans) ==
    IF loans = <<>> THEN 0
    ELSE Head(loans).amount + SumAmounts(Tail(loans))

RECURSIVE SumLedger(_, _)
SumLedger(ledger, ids) ==
    IF ids = {} THEN 0
    ELSE LET id == CHOOSE x \in ids : TRUE
         IN  ledger[id] + SumLedger(ledger, ids \ {id})

\* C15: when threads call contribute_to_pool and request_loan on one pool
\* at the same time, the outcome is that of some one-at-a-time order of
\* the calls: the pool's balance is never negative, and the loans it has
\* granted never add up to more than the contributions it has received.
C15_ConcurrentCallsLinearized ==
    \A p \in DOMAIN pools :
        /\ pools[p].total_balance >= 0
        /\ SumAmounts(pools[p].loans)
              <= SumLedger(pools[p].contributors,
                           DOMAIN pools[p].contributors)


(***************************************************************************)
(* Claims on instances sharing a network_id, checked under SpecInst.       *)
(***************************************************************************)

IsPrefix(s, t) == Len(s) <= Len(t) /\ SubSeq(t, 1, Len(s)) = s

\* the agents, messages and pool entries of `old` are all still in `new`;
\* an agent's record may differ only where the last call was made on that
\* agent, a pool's entries only where the last call created that pool anew
Kept(old, new, last) ==
    /\ \A a \in DOMAIN old.agents :
          /\ a \in DOMAIN new.agents
          /\ a # last.agent_id => new.agents[a] = old.agents[a]
    /\ IsPrefix(old.messages, new.messages)
    /\ \A p \in DOMAIN old.pools :
          /\ p \in DOMAIN new.pools
          /\ ~(last.op = "create_resource_pool" /\ last.pool_id = p) =>
                /\ IsPrefix(old.pools[p].loans, new.pools[p].loans)
                /\ \A a \in DOMAIN old.pools[p].contributors :
                      /\ a \in DOMAIN new.pools[p].contributors
                      /\ new.pools[p].contributors[a]
                            >= old.pools[p].contributors[a]

\* C16: with two instances open on one network_id, whatever one instance
\* has persisted (a registration or status change, a contribution or loan,
\* a message) is still in the files after any call of the other instance.
C16_NoPersistedUpdateLost ==
    [][Kept(disk, disk', inst_result')]_vars


(***************************************************************************)
(* Claims on spawning, checked under SpecScale.                            *)
(***************************************************************************)

WindowCall == now' = now /\ result'.op \in {"can_spend", "record_spending"}

\* what the call adds to the daily total
Recorded_amount == IF result'.op = "record_spending" THEN result'.amount ELSE 0

\* C19: once 24 hours or more have passed since last_reset, a call of
\* can_spend or record_spending starts a new daily window (daily_total
\* counts from 0, last_reset becomes the time of the call) before the
\* total is used or increased; before 24 hours have passed, no call resets
\* the window.
C19_DailyWindowLazyReset ==
    [][ /\ WindowCall =>
              IF now - last_reset >= DAY
              THEN /\ daily_total' = Recorded_amount
                   /\ last_reset' = now
              ELSE /\ daily_total' = daily_total + Recorded_amount
                   /\ last_reset' = last_reset
        /\ now - last_reset < DAY =>
              /\ last_reset' = last_reset
              /\ daily_total' >= daily_total
      ]_vars


\* C20: weekly_total is a rolling 7-day window, reset to 0 once 7 days have
\* passed since its last reset, so that it sums only the spending of the
\* last 7 days.  Under SpecWeek all spending is recorded at time 0: a call
\* that looks at the windows more than 7 days later finds weekly_total 0.
C20_WeeklyWindowRolls ==
    [][ (/\ now' = now
         /\ result'.op \in {"can_spend", "get_spending_report"}
         /\ now > WEEK)
            => weekly_total' = 0
      ]_vars


(***************************************************************************)
(* Claims on the decisions of can_spend, checked under SpecDecide.         *)
(***************************************************************************)

\* the last call was can_spend, and none of its first three branches
\* (emergency stop, daily cap, blacklist) applied
DecidedByAmount ==
    /\ result.op = "can_spend"
    /\ ~emergency_stop
    /\ daily_total + result.amount <= daily_limit
    /\ ~(result.recipient # NoRecipient
         /\ result.recipient \in blocked_recipients)

ReadOnlyCall ==
    /\ now' = now
    /\ result'.op \in {"can_spend", "set_limits", "emergency_stop_toggle",
                       "get_spending_report"}

\* C22: only record_spending increases daily_total or weekly_total or adds
\* a transaction: can_spend, set_limits, emergency_stop_toggle and
\* get_spending_report leave the transactions and weekly_total as they are,
\* and leave daily_total as it is or, for the daily reset, at 0.
C22_OnlyRecordSpendingAdds ==
    [][ ReadOnlyCall =>
          /\ transactions' = transactions
          /\ weekly_total' <= weekly_total
          /\ daily_total' <= daily_total
          /\ daily_total' \in {daily_total, 0}
      ]_vars

\* can_spend has just reset a daily total that held spending
C22_Witness ==
    /\ result.op = "can_spend"
    /\ now > 0
    /\ last_reset = now
    /\ daily_total = 0
    /\ weekly_total > 0


(***************************************************************************)
(* Claims on spend() and large payments, checked under SpecLarge.          *)
(***************************************************************************)

\* a step that is a call of spend() with amount >= LARGE_PAYMENT_MIN
LargeSpendCall ==
    /\ now' = now
    /\ result'.op = "spend"
    /\ result'.amount >= LARGE_PAYMENT_MIN

RECURSIVE SumOutstanding(_)
SumOutstanding(loans) ==
    IF loans = <<>> THEN 0
    ELSE (IF Head(loans).repaid THEN 0 ELSE Head(loans).amount)
            + SumOutstanding(Tail(loans))

\* C24: after any sequence of create_resource_pool, contribute_to_pool and
\* request_loan calls, every pool's total_balance is the sum of its
\* contributors' cumulative contributions minus the sum of the amounts of
\* its loans with repaid=False.
C24_BalanceIsContributionsMinusLoans ==
    \A p \in DOMAIN pools :
        pools[p].total_balance
            = SumLedger(pools[p].contributors, DOMAIN pools[p].contributors)
                 - SumOutstanding(pools[p].loans)

\* a pool with two contributors and an outstanding loan
C24_Witness ==
    \E p \in DOMAIN pools :
        /\ Cardinality(DOMAIN pools[p].contributors) >= 2
        /\ pools[p].loans # <<>>


\* C25: request_loan tests the reputation before the funds: a request by a
\* registered agent with reputation below 20 for more than the pool holds is
\* rejected for low reputation, not for insufficient funds.
C25_ReputationGateFirst ==
    [][\A p \in PoolIds, a \in AgentIds, x \in LoanAmounts,
         u \in LoanPurposes :
          (/\ p \in DOMAIN pools
           /\ a \in DOMAIN agents
           /\ agents[a].reputation < MIN_LOAN_REPUTATION
           /\ x > pools[p].total_balance
           /\ RequestLoan(p, a, x, u)) =>
              /\ ~net_result'.ok
              /\ net_result'.reason = "reputation too low"
      ]_vars

\* a loan was refused for low reputation when no pool held enough for any
\* amount that can be asked
C25_Witness ==
    /\ net_result.op = "request_loan"
    /\ net_result.reason = "reputation too low"
    /\ DOMAIN pools = PoolIds
    /\ \A p \in DOMAIN pools : \A x \in LoanAmounts :
          pools[p].total_balance < x


(***************************************************************************)
(* Claims on the message log, checked under SpecLog.                       *)
(***************************************************************************)

\* the last n elements of a sequence, all of it if it is shorter
LastN(seq, n) ==
    IF Len(seq) > n THEN SubSeq(seq, Len(seq) - n + 1, Len(seq)) ELSE seq

\* C26: after any sequence of send_message calls (direct, by request_help,
\* by offer_help) the log holds at most 1000 messages and is the most recent
\* min(n, 1000) of the n messages sent, in the order they were sent.
C26_LogIsLastThousandSent ==
    /\ Len(messages) <= KEEP_MESSAGES
    /\ messages = LastN(outbox, KEEP_MESSAGES)

\* more than 1000 messages have been sent, the last of them by offer_help
C26_Witness ==
    /\ Len(outbox) > KEEP_MESSAGES + 1
    /\ aid_result.op = "offer_help"


(***************************************************************************)
(* Claims on the choice of the helper, checked under SpecTie.              *)
(***************************************************************************)

\* the registry after each of the senders has made one offer
RECURSIVE after_offers(_, _)
after_offers(ags, senders) ==
    IF senders = <<>> THEN ags
    ELSE after_offers([ags EXCEPT ![Head(senders)].reputation =
                          boosted(@, OFFER_BOOST)], Tail(senders))

\* the available helpers of a registry that have its highest reputation
TopHelpers(ags) ==
    LET available == { h \in DOMAIN ags :
                         /\ ags[h].offers_help
                         /\ ags[h].tier \in {"NORMAL", "THRIVING"}
                         /\ ags[h].balance > MIN_HELPER_BALANCE }
    IN  { h \in available :
            \A g \in available : ags[g].reputation <= ags[h].reputation }

\* the senders of the offers of the last round
RoundSenders ==
    [k \in 1..(Len(messages) - aid_result.logged) |->
        messages[aid_result.logged + k].sender]

\* the registry the k-th match of the last round was made from
RegistryAtMatch(k) ==
    after_offers(aid_result.before, SubSeq(RoundSenders, 1, k - 1))

\* C27 as stated: every match of a round goes to the helper that is first
\* among the helpers of highest reputation both in registration order and in
\* the lexical order of the agent ids, so that the registry's profiles alone
\* determine it.
C27_TieByRegistrationAndLexicalOrder ==
    aid_result.op = "run_mutual_aid_round" =>
        \A k \in DOMAIN RoundSenders :
            LET top == TopHelpers(RegistryAtMatch(k))
            IN  /\ RoundSenders[k] = Head(InOrder(registered, top))
                /\ RoundSenders[k] = Head(InOrder(LexicalOrder, top))

\* C27, amended: every match of a round goes to the helper that was
\* registered first among the available helpers of highest reputation; the
\* registry's profiles and the order of their registration determine it.
C27_TieByRegistrationOrder ==
    aid_result.op = "run_mutual_aid_round" =>
        \A k \in DOMAIN RoundSenders :
            RoundSenders[k] =
                Head(InOrder(registered, TopHelpers(RegistryAtMatch(k))))

\* a round has matched two needy agents, both times with two helpers tied
\* at the highest reputation, and the helper registered first is not the
\* lexically first
C27_Witness ==
    /\ aid_result.op = "run_mutual_aid_round"
    /\ Len(RoundSenders) = 2
    /\ \A k \in DOMAIN RoundSenders :
          /\ Cardinality(TopHelpers(RegistryAtMatch(k))) = 2
          /\ RoundSenders[k] = "h2"


(***************************************************************************)
(* Claims on EnhancedSoulSurvival, checked under SpecSurvive.              *)
(***************************************************************************)

\* the records a step appends to the backup history
Added ==
    SubSeq(backup_history', Len(backup_history) + 1, Len(backup_history'))

\* C28: a heartbeat applies the backup policy of the tier it finds: in LOW
\* and NORMAL one "auto" backup is made iff the time since the last backup
\* has reached the interval, and otherwise the history is unchanged; in
\* THRIVING a backup is made by every heartbeat; in CRITICAL a "critical"
\* backup is made at once whatever that time is.  After the heartbeat the
\* time since the last backup is below the interval.
C28_HeartbeatBackupPolicy ==
    [][Heartbeat =>
        LET tier == survival_tier(survivor.soul)
            elapsed == clock - survivor.state.last_backup_time
            interval == survivor.soul.backup_interval
        IN  /\ IsPrefix(backup_history, backup_history')
            /\ tier \in {"LOW", "NORMAL"} =>
                  IF elapsed >= interval
                  THEN Len(Added) = 1 /\ Added[1].type = "auto"
                  ELSE backup_history' = backup_history
            /\ tier = "THRIVING" =>
                  Len(Added) = 1 /\ Added[1].type = "thriving"
            /\ tier = "CRITICAL" =>
                  /\ Len(Added) >= 1
                  /\ Added[1].type = "critical"
                  /\ Added[1].timestamp = clock
            /\ clock' - survivor'.state.last_backup_time < interval]_vars

\* a heartbeat in LOW made a backup exactly one interval after the last one
C28_Witness ==
    /\ surv_result.op = "heartbeat"
    /\ surv_result.action = "conservation_mode"
    /\ surv_result.made = 1
    /\ Len(backup_history) >= 2
    /\ backup_history[Len(backup_history)].timestamp
         - backup_history[Len(backup_history) - 1].timestamp
         = BACKUP_INTERVAL

\* get_backup_status: restorable, of the current object
Restorable == restorable(Survival(survivor, backup_history, ipfs_cache))

\* C29: every create_backup call appends exactly one record, no call ever
\* changes or removes an earlier record, and restorable, once true, stays
\* true.
C29_BackupHistoryOnlyGrows ==
    [][/\ IsPrefix(backup_history, backup_history')
       /\ \A t \in BackupTypes :
             CreateBackup(t) => Len(backup_history') = Len(backup_history) + 1
       /\ Len(backup_history) > 0 => Len(backup_history') > 0
       /\ Restorable => Restorable']_vars

\* create_backup has been called again on an unchanged soul: the last two
\* records name the same content
C29_Witness ==
    /\ surv_result.op = "create_backup"
    /\ Len(backup_history) >= 2
    /\ backup_history[Len(backup_history)].cid
         = backup_history[Len(backup_history) - 1].cid


(***************************************************************************)
(* Claims on restoring, checked under SpecRestore.                         *)
(***************************************************************************)

\* C30: restore_from_backup with no handle succeeds and makes the content
\* of the most recent backup record the current soul; with an empty backup
\* history it fails and leaves the current soul unchanged.
C30_RestoreLatestOrFail ==
    [][SurvivalRestore(NoCid) =>
        IF backup_history = <<>>
        THEN /\ ~surv_result'.ok
             /\ survivor'.soul = survivor.soul
        ELSE /\ surv_result'.ok
             /\ calculate_hash(dumps(survivor'.soul))
                  = backup_history[Len(backup_history)].cid]_vars


(***************************************************************************)
(* Claims on a failing backup store, checked under SpecOutage.             *)
(***************************************************************************)

\* C31: a heartbeat during which the backup store fails still completes;
\* the backup history and last_backup_time are not advanced, so that the
\* backup is due again at the next heartbeat.
C31_StoreFailureNotFatal ==
    [][HeartbeatStoreDown =>
        /\ surv_result'.ok
        /\ backup_history' = backup_history
        /\ survivor'.state.last_backup_time = survivor.state.last_backup_time
      ]_vars


(***************************************************************************)
(* Claims on chain anchoring, checked under SpecAnchor.                    *)
(***************************************************************************)

\* C32: create_backup returns the same handle and makes the same local
\* changes (one record appended, last_backup_time set, backup_count + 1, the
\* soul untouched) whether the on-chain record succeeds, fails, or there is
\* no token.
C32_AnchoringIsAdvisory ==
    [][\A t \in BackupTypes, anchored \in BOOLEAN :
          CreateBackupAnchoring(t, anchored) =>
              /\ backup_result'.cid = calculate_hash(dumps(survivor.soul))
              /\ backup_history' =
                     Append(backup_history,
                            backup_record(survivor.soul, t, clock))
              /\ survivor'.state.last_backup_time = clock
              /\ survivor'.state.backup_count
                   = survivor.state.backup_count + 1
              /\ survivor'.state.token_id = survivor.state.token_id
              /\ survivor'.soul = survivor.soul
      ]_vars

\* a backup of a minted soul whose on-chain record failed
C32_Witness ==
    /\ surv_result.op = "create_backup"
    /\ surv_result.action = "anchor_failed"
    /\ survivor.state.token_id # 0
    /\ survivor.state.last_backup_time = clock

(***************************************************************************)
(* Claims on the recommendation of should_spawn, checked under SpecAdvice. *)
(***************************************************************************)

\* what the children and the balance allow: the room left under
\* max_children and the fundings the balance above the reserve pays for
SpawnCap(had, balance) ==
    Min(MAX_CHILDREN - had, (balance - MIN_PARENT_RESERVE) \div CHILD_FUNDING)

C34_ChildLifecycle ==
    [][/\ \A k \in DOMAIN children' \ DOMAIN children :
             /\ scale_result'.op = "spawn_child"
             /\ children'[k].status = "gestating"
       /\ \A k \in DOMAIN children :
             /\ k \in DOMAIN children'
             /\ children'[k].status # children[k].status =>
                   /\ scale_result'.op = "provision_child"
                   /\ children[k].status = "gestating"
                   /\ children'[k].status = "alive"
       /\ (scale_result'.op = "provision_child" /\ ~scale_result'.ok) =>
             UNCHANGED <<children, soul>>]_vars

(***************************************************************************)
(* Claims on the loop of UltimateAgentSystem, checked under SpecSystem.    *)
(***************************************************************************)

\* C35: a shutdown takes effect only between two stages of the cycle (or
\* between two cycles), never between the recording of a spawned child and
\* the debit of the parent's balance.
C35_ShutdownBetweenStages ==
    system.pc = "stopped" => system.halted_at \in StageBoundaries


\* C39: at the end of every run_cycle and of every work call the registry's
\* balance and tier of the agent are the balance of its soul and the tier
\* of that balance, also when children were spawned.
C39_RegistryMatchesSoul ==
    (system.last \in {"run_cycle", "work"} /\ system.pc # "stopped") =>
        /\ agents[SystemAgent].balance = survivor.soul.current_balance
        /\ agents[SystemAgent].tier = survival_tier(survivor.soul)


(***************************************************************************)
(* Further claims on the resource pools, checked under SpecPool.           *)
(***************************************************************************)

\* C36: every loan recorded in a pool was granted to an agent that was, at
\* the time of the grant, registered with a reputation of at least
\* MIN_LOAN_REPUTATION; an agent_id absent from the registry gets no loan.
C36_LoansOnlyToRegistered ==
    [][\A p \in DOMAIN pools \cap DOMAIN pools' :
          Len(pools'[p].loans) > Len(pools[p].loans) =>
              LET loan == pools'[p].loans[Len(pools'[p].loans)]
              IN  /\ loan.agent_id \in DOMAIN agents
                  /\ agents[loan.agent_id].reputation >= MIN_LOAN_REPUTATION
      ]_vars


(***************************************************************************)
(* Claims on the reputation of registered agents, checked under            *)
(* SpecStanding.                                                           *)
(***************************************************************************)

\* C37 as stated: under contribute_to_pool, offer_help, request_help,
\* request_loan and run_mutual_aid_round the reputation of a registered
\* agent never decreases, and one that was at most 100 never exceeds 100.
C37_ReputationNeverDecreases ==
    [][\A a \in DOMAIN agents :
          /\ a \in DOMAIN agents'
          /\ agents'[a].reputation >= agents[a].reputation
          /\ agents[a].reputation <= MAX_REPUTATION =>
                agents'[a].reputation <= MAX_REPUTATION
      ]_vars

\* C37 amended: a reputation of at most 100 never decreases and never
\* exceeds 100; a reputation above 100 stays, or is set to 100 by the
\* agent's contribution or offer.
C37_ReputationMonotoneUnderCap ==
    [][\A a \in DOMAIN agents :
          /\ a \in DOMAIN agents'
          /\ agents[a].reputation <= MAX_REPUTATION =>
                /\ agents'[a].reputation >= agents[a].reputation
                /\ agents'[a].reputation <= MAX_REPUTATION
          /\ agents[a].reputation > MAX_REPUTATION =>
                agents'[a].reputation \in {agents[a].reputation,
                                           MAX_REPUTATION}
      ]_vars

\* an offer by an agent at the cap left its reputation at the cap
C37_Witness ==
    /\ aid_result.op = "offer_help"
    /\ messages # <<>>
    /\ LET helper == messages[Len(messages)].sender
       IN  /\ aid_result.before[helper].reputation = MAX_REPUTATION
           /\ agents[helper].reputation = MAX_REPUTATION


\* every field of every profile but the reputation is as it was, and the
\* reputation too except for the agents in `helpers`
OnlyReputationOf(helpers) ==
    /\ DOMAIN agents' = DOMAIN agents
    /\ \A a \in DOMAIN agents :
          /\ [agents'[a] EXCEPT !.reputation = 0] =
                [agents[a] EXCEPT !.reputation = 0]
          /\ a \notin helpers => agents'[a].reputation = agents[a].reputation

\* the messages the step has appended to the log
Appended == SubSeq(messages', Len(messages) + 1, Len(messages'))

\* C38: run_mutual_aid_round and offer_help leave every agent's balance and
\* tier and every pool as they were; only the message log grows and the
\* reputation of the helpers changes; the round matches no agent to itself.
C38_AidMovesNoFunds ==
    [][/\ \A a \in AgentIds, b \in StandingTargets :
             OfferHelp(a, b) =>
                 /\ pools' = pools
                 /\ OnlyReputationOf({a})
                 /\ Len(Appended) = 1
       /\ RunMutualAidRound(registered) =>
             /\ pools' = pools
             /\ OnlyReputationOf({ Appended[i].sender : i \in DOMAIN Appended })
             /\ Len(Appended) = aid_result'.matches
             /\ \A i \in DOMAIN Appended :
                   /\ Appended[i].msg_type = "offer"
                   /\ Appended[i].sender # Appended[i].recipient
      ]_vars

\* a round has matched the helper to the agent in need and raised the
\* helper's reputation
C38_Witness ==
    /\ aid_result.op = "run_mutual_aid_round"
    /\ aid_result.matches > 0
    /\ Len(messages) = aid_result.logged + aid_result.matches
    /\ \E h \in DOMAIN agents :
          /\ messages[Len(messages)].sender = h
          /\ agents[h].reputation > aid_result.before[h].reputation
          /\ agents[h].balance = aid_result.before[h].balance


(***************************************************************************)
(* Claims on the number of children, checked under SpecBrood.              *)
(***************************************************************************)

\* C40: after any sequence of auto_scale and spawn_child calls the manager
\* has at most max_children children.
C40_ChildrenWithinMax == Len(children) <= MAX_CHILDREN

====
